---- MODULE Spec2Model ----
(***************************************************************************)
(* Model of the chat orchestration of mcp-web-ui                           *)
(* (internal/handlers/chat.go): the HandleChats request handler, the       *)
(* crash-recovery continuation continueChat, the tool gateway callTool     *)
(* and the streaming loop Main.chat, over one conversation of the store.   *)
(*                                                                         *)
(* A json.RawMessage is modelled as the sequence of its lexical tokens,    *)
(* and json validity is decided by parsing that sequence.                  *)
(*                                                                         *)
(* Environment: the store, the tool provider, the LLM adapter and the SSE  *)
(* server are external; each call to them draws its outcome (value or      *)
(* error) nondeterministically.  The process may stop at any step (Crash), *)
(* which loses all in-memory state and keeps the store.  A request on the  *)
(* conversation is accepted only while no loop runs on it (the caller      *)
(* discipline the design relies on).                                       *)
(***************************************************************************)
EXTENDS Integers, Sequences, FiniteSets, TLC

\* ------------------------------------------------------------------ bounds
MaxRequests == 3   \* HandleChats requests accepted in one behaviour
MaxPasses   == 3   \* streaming passes (llm.Chat calls) started in one behaviour
MaxDeltas   == 2   \* content items the adapter yields in one behaviour
MaxContents == 2   \* content items of a message of a transcript passed to an adapter
MaxStops    == 2   \* configured stop sequences
MaxStopLen  == 2   \* characters of a stop sequence
MaxEvents   == 4   \* events an adapter receives from its transport in one call
MaxForms    == 1   \* requests that may carry a prompt or attached resources
MaxRefresh  == 2   \* refresh-title requests
MaxMessages == 3   \* messages of the conversation a refresh-title request reads
MaxTurnContents == 4 \* content items of an assistant message written by the loop

\* ------------------------------------------------- json.RawMessage payloads
Tok(t, v) == [t |-> t, v |-> v]
LBrace   == Tok("{", "{")
RBrace   == Tok("}", "}")
LBrack   == Tok("[", "[")
RBrack   == Tok("]", "]")
Colon    == Tok(":", ":")
Comma    == Tok(",", ",")
Str(s)   == Tok("str", s)
Bare(s)  == Tok("bare", s)
Null     == Tok("lit", "null")

RECURSIVE ParseValue(_, _), ParseMembers(_, _), ParseElements(_, _)
\* Index after the JSON value that starts at toks[i], or 0 when there is none.
ParseValue(toks, i) ==
  IF i > Len(toks) THEN 0
  ELSE IF toks[i].t \in {"str", "lit"} THEN i + 1
  ELSE IF toks[i].t = "{" THEN
         IF i + 1 <= Len(toks) /\ toks[i + 1].t = "}" THEN i + 2
         ELSE ParseMembers(toks, i + 1)
  ELSE IF toks[i].t = "[" THEN
         IF i + 1 <= Len(toks) /\ toks[i + 1].t = "]" THEN i + 2
         ELSE ParseElements(toks, i + 1)
  ELSE 0
\* Index after the closing brace of the members that start at toks[i], or 0.
ParseMembers(toks, i) ==
  IF i + 1 > Len(toks) \/ toks[i].t # "str" \/ toks[i + 1].t # ":" THEN 0
  ELSE LET j == ParseValue(toks, i + 2) IN
       IF j = 0 \/ j > Len(toks) THEN 0
       ELSE IF toks[j].t = "}" THEN j + 1
       ELSE IF toks[j].t = "," THEN ParseMembers(toks, j + 1)
       ELSE 0
\* Index after the closing bracket of the elements that start at toks[i], or 0.
ParseElements(toks, i) ==
  LET j == ParseValue(toks, i) IN
  IF j = 0 \/ j > Len(toks) THEN 0
  ELSE IF toks[j].t = "]" THEN j + 1
  ELSE IF toks[j].t = "," THEN ParseElements(toks, j + 1)
  ELSE 0

\* json.Valid: the whole payload is exactly one JSON value.
JSONValid(toks) == Len(toks) > 0 /\ ParseValue(toks, 1) = Len(toks) + 1

\* json.Marshal(json.RawMessage): a nil message marshals to null, any other
\* message is passed through the validating compactor.
MarshalRawOK(toks) == JSONValid(toks)

RECURSIVE RawString(_)
\* string(raw): the bytes of the payload.
RawString(toks) ==
  IF toks = <<>> THEN "" ELSE toks[1].v \o RawString(Tail(toks))

EmptyObject == <<LBrace, RBrace>>

\* json.Marshal([]mcp.Content{{Type: text, Text: text}})
MarshalTextContent(text) ==
  <<LBrack, LBrace, Str("type"), Colon, Str("text"), Comma,
    Str("text"), Colon, Str(text), RBrace, RBrack>>

callToolError(errText) == MarshalTextContent(errText)

\* ------------------------------------------------------ models.Content
Content(type, text, name, input, result, id, failed) ==
  [Type |-> type, Text |-> text, ToolName |-> name, ToolInput |-> input,
   ToolResult |-> result, CallToolID |-> id, CallToolFailed |-> failed]

ContentTypeText       == "text"
ContentTypeResource   == "resource"
ContentTypeCallTool   == "call_tool"
ContentTypeToolResult == "tool_result"
RoleUser      == "user"
RoleAssistant == "assistant"

TextContent(text)           == Content(ContentTypeText, text, "", <<>>, <<>>, "", FALSE)
ResourceContent             == Content(ContentTypeResource, "", "", <<>>, <<>>, "", FALSE)
CallToolContent(n, id, in)  == Content(ContentTypeCallTool, "", n, in, <<>>, id, FALSE)
\* mutant: the tool result does not carry the identifier of its call
ToolResultContent_NoID(id, r, f) == Content(ContentTypeToolResult, "", "", <<>>, r, "", f)
ToolResultContent(id, r, f) == Content(ContentTypeToolResult, "", "", <<>>, r, id, f)

Message(id, role, contents) == [ID |-> id, Role |-> role, Contents |-> contents]

\* json.Indent: the indented text of a valid payload; the raw bytes otherwise.
Pretty(toks) == IF JSONValid(toks) THEN <<"pretty", toks>> ELSE <<"raw", RawString(toks)>>

RECURSIVE RenderContents(_)
\* The markdown pieces in content order; empty text items are skipped.
RenderContents(contents) ==
  IF contents = <<>> THEN <<>>
  ELSE LET c == contents[1]
           piece ==
             CASE c.Type = ContentTypeText ->
                    IF c.Text = "" THEN <<>> ELSE << <<"text", c.Text>> >>
               [] c.Type = ContentTypeResource -> << <<"resource">> >>
               [] c.Type = ContentTypeCallTool ->
                    << <<"call", c.ToolName, Pretty(c.ToolInput)>> >>
               [] c.Type = ContentTypeToolResult ->
                    << <<"result", Pretty(c.ToolResult)>> >>
       IN piece \o RenderContents(Tail(contents))


\* ---------------------------------------------------------- environment
toolsMap == [n \in {"lookup"} |-> 1]          \* tool name -> index of its MCP client
ValidInput == <<LBrace, Str("q"), Colon, Str("x"), RBrace>>
BadInput   == <<Bare("not-json")>>
\* <<tool name, argument payload>> of the calls an adapter may ask for
ToolCalls == {<<"lookup", ValidInput>>, <<"ghost", ValidInput>>, <<"lookup", BadInput>>}
TextDeltas == {"a"}
\* what MCPClient.CallTool may do: a result, a result flagged IsError, an
\* error, or a result whose content does not serialize
ProviderOutcomes == {"ok", "isError", "error", "unmarshalable"}

VARIABLES
  store,            \* persisted messages of the conversation, in insertion order
  chatExists,       \* the conversation is in the store
  requests,         \* HandleChats requests accepted so far
  hpc,              \* position of the HandleChats request being served
  isNewChat,        \* HandleChats: isNewChat
  userMessages,     \* HandleChats: userMessages still to add
  lastMessage,      \* continueChat: lastMessage, between callTool and UpdateMessage
  lpc,              \* position of the Main.chat goroutine
  messages,         \* chat: messages (the transcript handed to llm.Chat)
  aiMsg,            \* chat: aiMsg
  contentIdx,       \* chat: contentIdx
  callToolFlag,     \* chat: callTool
  badToolInputFlag, \* chat: badToolInputFlag
  badToolInput,     \* chat: badToolInput
  passes,           \* llm.Chat calls so far
  deltas,           \* content items pulled so far
  outcome,          \* how the last turn ended
  log,              \* external calls of the current request and its turn, in order
  ccRuns,           \* results of the continueChat runs since the last other operation
  badCalls,         \* <<message id, content index>> of tool calls whose input was not valid json
  invoked,          \* <<message id, content index>> of the tool calls callTool was called for since the process started
  subscribers,      \* SSE sessions subscribed to the topic of the running turn's message
  status,           \* HTTP status of the answer to the last request, 0 while there is none
  title,            \* the stored title of the conversation
  tpc,              \* position of the generateChatTitle goroutine
  generated,        \* generateChatTitle: title, "" before the generator has answered
  refresh,          \* the HandleRefreshTitle requests so far and the answer to the last one
  running,          \* overlapping turns: the chat goroutines at work on the conversation
  \* one call of an adapter's Chat and the consumer of its sequence
  adapter,          \* the adapter called: "anthropic", "openai", "openrouter", "ollama"
  apc,              \* position of the sequence function
  ctx,              \* the context passed to Chat: "live" or "cancelled"
  cancelCalled,     \* the adapter has called cancel() of its derived context
  transcript,       \* the messages passed to Chat
  stop,             \* params.Stop
  request,          \* the requests sent to the provider
  toolUse,          \* toolUse (isToolUse in Anthropic.Chat)
  toolArgs,         \* toolArgs (inputJSON in Anthropic.Chat)
  toolContent,      \* callToolContent (toolContent in Anthropic.Chat)
  yielded,          \* the calls of yield so far, in order
  stopped,          \* yield has returned false
  wire,             \* the tool calls the provider has signalled so far, in order
  nrecv,            \* events received from the transport
  block             \* the content block open on an Anthropic stream

hvars == <<hpc, isNewChat, userMessages, lastMessage>>
lvars == <<lpc, messages, aiMsg, contentIdx, callToolFlag, badToolInputFlag,
           badToolInput, subscribers>>
cvars == <<requests, passes, deltas>>
tvars == <<title, tpc, generated, refresh>>
mvars == <<store, chatExists, cvars, hvars, lvars, outcome, log, ccRuns, badCalls, invoked,
           status, tvars, running>>
avars == <<adapter, apc, ctx, cancelCalled, transcript, stop, request, toolUse,
           toolArgs, toolContent, yielded, stopped, wire, nrecv, block>>
vars  == <<mvars, avars>>

Ev(op, who, arg) == [op |-> op, who |-> who, arg |-> arg]
NoMessage == Message(0, "", <<>>)
Last(s) == s[Len(s)]

\* what HandleRefreshTitle did with a request: the calls it made ("n/a" for
\* a call it did not reach) and its answer
RefreshAnswer(n, method, chatID, read, gen, update, code, body) ==
  [n |-> n, method |-> method, chat_id |-> chatID, read |-> read, gen |-> gen,
   update |-> update, status |-> code, body |-> body]
NoRefresh == RefreshAnswer(0, "n/a", "n/a", "n/a", "n/a", "n/a", 0, "")

\* No request is served, no turn and no title generation runs.
HandlersQuiet ==
  /\ requests = 0
  /\ hpc = "idle"
  /\ isNewChat = FALSE
  /\ userMessages = <<>>
  /\ lastMessage = NoMessage
  /\ lpc = "none"
  /\ messages = <<>>
  /\ aiMsg = NoMessage
  /\ contentIdx = -1
  /\ callToolFlag = FALSE
  /\ badToolInputFlag = FALSE
  /\ badToolInput = EmptyObject
  /\ passes = 0
  /\ deltas = 0
  /\ outcome = "none"
  /\ log = <<>>
  /\ ccRuns = <<>>
  /\ badCalls = {}
  /\ invoked = {}
  /\ subscribers = 0
  /\ status = 0
  /\ tpc = "none"
  /\ generated = ""
  /\ refresh = NoRefresh
  /\ running = {}

\* The server has started: there is no conversation yet.
HandlersIdle ==
  /\ store = <<>>
  /\ chatExists = FALSE
  /\ title = ""
  /\ HandlersQuiet

NoToolContent == CallToolContent("", "", <<>>)

\* No adapter is called.
AdaptersIdle ==
  /\ adapter = "none"
  /\ apc = "idle"
  /\ ctx = "live"
  /\ cancelCalled = FALSE
  /\ transcript = <<>>
  /\ stop = <<>>
  /\ request = <<>>
  /\ toolUse = FALSE
  /\ toolArgs = <<>>
  /\ toolContent = NoToolContent
  /\ yielded = <<>>
  /\ stopped = FALSE
  /\ wire = <<>>
  /\ nrecv = 0
  /\ block = "none"

Init == HandlersIdle /\ AdaptersIdle

\* ------------------------------------------------------------- the store
\* mutant: the message is added after the others
UpdateMessage_Appends(st, msg) == Append(st, msg)
\* Store.UpdateMessage: replaces the message that has msg's ID, and adds
\* msg when there is none.
UpdateMessage(st, msg) ==
  IF \E i \in 1..Len(st) : st[i].ID = msg.ID
    THEN [i \in 1..Len(st) |-> IF st[i].ID = msg.ID THEN msg ELSE st[i]]
    ELSE Append(st, msg)
\* Store.AddMessage
AddMessage(st, msg) == Append(st, msg)

\* ------------------------------------------------------- the tool gateway
\* mutant: the IsError flag of the provider's result is not looked at
callTool_IsErrorIgnored(params, o) ==
  IF params.Name \notin DOMAIN toolsMap
    THEN [res |-> callToolError("tool " \o params.Name \o " is not found"),
          success |-> FALSE, provider |-> FALSE, did |-> "notCalled"]
  ELSE IF o = "error"
    THEN [res |-> callToolError("tool call failed: provider error"),
          success |-> FALSE, provider |-> TRUE, did |-> o]
  ELSE IF o = "unmarshalable"
    THEN [res |-> callToolError("failed to marshal content: unsupported value"),
          success |-> FALSE, provider |-> TRUE, did |-> o]
  ELSE [res |-> MarshalTextContent("result of " \o params.Name),
        success |-> TRUE, provider |-> TRUE, did |-> o]

\* Main.callTool: res is the returned payload, success the returned flag;
\* provider tells whether the MCP client was called and did what it did.
callTool(params, o) ==
  IF params.Name \notin DOMAIN toolsMap
    THEN [res |-> callToolError("tool " \o params.Name \o " is not found"),
          success |-> FALSE, provider |-> FALSE, did |-> "notCalled"]
  ELSE IF o = "error"
    THEN [res |-> callToolError("tool call failed: provider error"),
          success |-> FALSE, provider |-> TRUE, did |-> o]
  ELSE IF o = "unmarshalable"
    THEN [res |-> callToolError("failed to marshal content: unsupported value"),
          success |-> FALSE, provider |-> TRUE, did |-> o]
  ELSE [res |-> MarshalTextContent("result of " \o params.Name),
        success |-> (o # "isError"), provider |-> TRUE, did |-> o]

CallEv(who, params, msgID, idx, r) ==
  Ev("callTool", who, [Name |-> params.Name, Arguments |-> params.Arguments,
                       msg |-> msgID, idx |-> idx, provider |-> r.provider,
                       did |-> r.did, res |-> r.res, success |-> r.success])


\* ------------------------------------------------------------ HandleChats
ResetLoop ==
  /\ lpc' = "none"
  /\ messages' = <<>>
  /\ aiMsg' = NoMessage
  /\ contentIdx' = -1
  /\ callToolFlag' = FALSE
  /\ badToolInputFlag' = FALSE
  /\ badToolInput' = EmptyObject
  /\ subscribers' = 0

\* The handler returns (an HTTP error, or the rendered response).
HandlerReturns ==
  /\ hpc' = "idle"
  /\ isNewChat' = FALSE
  /\ userMessages' = <<>>
  /\ lastMessage' = NoMessage

\* A request arrives: chat_id is empty exactly when the client has no
\* conversation yet.  Main.newChat for an empty chat_id.
HandleChats ==
  /\ UNCHANGED <<avars, tvars, running>>
  /\ hpc = "idle" /\ lpc = "none"
  /\ requests < MaxRequests
  /\ requests' = requests + 1
  /\ UNCHANGED <<store, lvars, passes, deltas, outcome, badCalls, invoked>>
  /\ \E method \in {"POST", "GET"} :
       IF method # "POST"
         THEN /\ status' = 405
              /\ log' = <<>>
              /\ HandlerReturns
              /\ UNCHANGED <<chatExists, ccRuns>>
       ELSE IF ~chatExists
         THEN \E r \in {"ok", "addChatFails", "publishFails"} :
                /\ chatExists' = (r # "addChatFails")
                /\ log' = <<Ev("AddChat", "HandleChats", [ok |-> r # "addChatFails"])>>
                /\ ccRuns' = <<>>
                /\ IF r = "ok"
                     THEN /\ hpc' = "input"
                          /\ isNewChat' = TRUE
                          /\ status' = 0
                          /\ UNCHANGED <<userMessages, lastMessage>>
                     ELSE /\ HandlerReturns
                          /\ status' = 500
       ELSE /\ hpc' = "continueChat"
            /\ log' = <<>>
            /\ status' = 0
            /\ UNCHANGED <<chatExists, ccRuns, isNewChat, userMessages, lastMessage>>

\* mutant: the test of the last content item is inverted
NothingToContinue_Inverted(msgs) ==
  \/ Len(msgs) = 0
  \/ Last(msgs).Role # RoleAssistant
  \/ Len(Last(msgs).Contents) = 0
  \/ Last(Last(msgs).Contents).Type = ContentTypeCallTool

\* Main.continueChat, the early returns: there is nothing to continue.
NothingToContinue(msgs) ==
  \/ Len(msgs) = 0
  \/ Last(msgs).Role # RoleAssistant
  \/ Len(Last(msgs).Contents) = 0
  \/ Last(Last(msgs).Contents).Type # ContentTypeCallTool

\* mutant: the result carries the identifier of the first item of the message
continueChat_FirstItemID ==
  /\ UNCHANGED <<avars, tvars, running>>
  /\ hpc = "continueChat"
  /\ UNCHANGED <<store, chatExists, cvars, lvars, outcome, badCalls,
                 isNewChat, userMessages>>
  /\ \/ \* store.Messages fails: HandleChats answers 500
        /\ log' = Append(log, Ev("Messages", "continueChat", [ok |-> FALSE, messages |-> <<>>]))
        /\ ccRuns' = Append(ccRuns, "readFailed")
        /\ hpc' = "idle"
        /\ status' = 500
        /\ lastMessage' = NoMessage
        /\ UNCHANGED invoked
     \/ LET read == Ev("Messages", "continueChat", [ok |-> TRUE, messages |-> store])
        IN IF NothingToContinue(store)
             THEN /\ log' = Append(log, read)
                  /\ ccRuns' = Append(ccRuns, "noop")
                  /\ hpc' = "input"
                  /\ lastMessage' = NoMessage
                  /\ UNCHANGED <<status, invoked>>
             ELSE \E o \in ProviderOutcomes :
                    LET last == Last(store)
                        n == Len(last.Contents)
                        params == [Name |-> last.Contents[n].ToolName,
                                   Arguments |-> last.Contents[n].ToolInput]
                        r == callTool(params, o)
                    IN /\ log' = log \o <<read, CallEv("continueChat", params, last.ID, n, r)>>
                       /\ invoked' = invoked \cup {<<last.ID, n>>}
                       /\ lastMessage' =
                            [last EXCEPT !.Contents =
                               Append(@, ToolResultContent(last.Contents[1].CallToolID,
                                                           r.res, ~r.success))]
                       /\ hpc' = "continueChatUpdate"
                       /\ UNCHANGED <<ccRuns, status>>

\* Main.continueChat up to the tool call: reads the persisted messages,
\* returns when there is no trailing tool call, else calls the tool and
\* appends the result to its copy of the last message.
continueChat ==
  /\ UNCHANGED <<avars, tvars, running>>
  /\ hpc = "continueChat"
  /\ UNCHANGED <<store, chatExists, cvars, lvars, outcome, badCalls,
                 isNewChat, userMessages>>
  /\ \/ \* store.Messages fails: HandleChats answers 500
        /\ log' = Append(log, Ev("Messages", "continueChat", [ok |-> FALSE, messages |-> <<>>]))
        /\ ccRuns' = Append(ccRuns, "readFailed")
        /\ hpc' = "idle"
        /\ status' = 500
        /\ lastMessage' = NoMessage
        /\ UNCHANGED invoked
     \/ LET read == Ev("Messages", "continueChat", [ok |-> TRUE, messages |-> store])
        IN IF NothingToContinue(store)
             THEN /\ log' = Append(log, read)
                  /\ ccRuns' = Append(ccRuns, "noop")
                  /\ hpc' = "input"
                  /\ lastMessage' = NoMessage
                  /\ UNCHANGED <<status, invoked>>
             ELSE \E o \in ProviderOutcomes :
                    LET last == Last(store)
                        n == Len(last.Contents)
                        params == [Name |-> last.Contents[n].ToolName,
                                   Arguments |-> last.Contents[n].ToolInput]
                        r == callTool(params, o)
                    IN /\ log' = log \o <<read, CallEv("continueChat", params, last.ID, n, r)>>
                       /\ invoked' = invoked \cup {<<last.ID, n>>}
                       /\ lastMessage' =
                            [last EXCEPT !.Contents =
                               Append(@, ToolResultContent(last.Contents[n].CallToolID,
                                                           r.res, ~r.success))]
                       /\ hpc' = "continueChatUpdate"
                       /\ UNCHANGED <<ccRuns, status>>

\* mutant: HandleChats goes on after continueChat failed to write
continueChatWrote_ErrorIgnored(ok) ==
  /\ ccRuns' = Append(ccRuns, IF ok THEN "resolved" ELSE "writeFailed")
  /\ hpc' = "input"
  /\ UNCHANGED status

\* What continueChat and HandleChats do with the result of the write: an
\* error is returned and answered with 500, else the request goes on.
continueChatWrote(ok) ==
  IF ok
    THEN /\ ccRuns' = Append(ccRuns, "resolved")
         /\ hpc' = "input"
         /\ UNCHANGED status
    ELSE /\ ccRuns' = Append(ccRuns, "writeFailed")
         /\ hpc' = "idle"
         /\ status' = 500

\* mutant: the message is written as it was read, without the tool result
continueChatWrites_Stale(msg) == [msg EXCEPT !.Contents = SubSeq(@, 1, Len(@) - 1)]

\* The message continueChat writes: its copy of the last message, extended.
continueChatWrites(msg) == msg

\* Main.continueChat, the write of the extended message.
continueChatUpdate ==
  /\ UNCHANGED <<avars, tvars, running>>
  /\ hpc = "continueChatUpdate"
  /\ UNCHANGED <<chatExists, cvars, lvars, outcome, badCalls, invoked, isNewChat, userMessages>>
  /\ lastMessage' = NoMessage
  /\ \E ok \in BOOLEAN :
       LET msg == continueChatWrites(lastMessage)
       IN /\ log' = Append(log, Ev("UpdateMessage", "continueChat", [msg |-> msg, ok |-> ok]))
          /\ store' = IF ok THEN UpdateMessage(store, msg) ELSE store
          /\ continueChatWrote(ok)

\* ------------------------------------------------- the form of a request
promptsMap   == [n \in {"greet"} |-> 1]        \* prompt name -> index of its MCP client
resourcesMap == [u \in {"file:///a"} |-> 1]    \* resource URI -> index of its MCP client
\* promptResult.Messages of the prompt: each message has one content
PromptMessages ==
  <<[Role |-> RoleUser, Type |-> "text", Text |-> "hello"],
    [Role |-> RoleAssistant, Type |-> "image", Text |-> ""],
    [Role |-> RoleAssistant, Type |-> "text", Text |-> "hi"]>>
\* the form values of a request
Form(promptName, promptArgs, message, attached) ==
  [prompt_name |-> promptName, prompt_args |-> promptArgs, message |-> message,
   attached_resources |-> attached]
Forms ==
  {Form(n, a, m, r) :
     n \in {"", "greet", "nope"}, a \in {"{}", "invalid_json"}, m \in {"", "hello"},
     r \in {"", "[]", "[invalid", "[file:///a]", "[unknown:///x]"}}
\* the forms of a client that sends a message without attachments
PlainForms ==
  {f \in Forms : f.prompt_name = "" /\ f.prompt_args = "{}" /\ f.attached_resources = ""}

\* what the input processing gives: the status of an error answer, or 0
\* and the messages to add
InputResult(code, msgs) == [status |-> code, msgs |-> msgs]
NewMessage(role, contents) == [Role |-> role, Contents |-> contents]

RECURSIVE TextMessages(_)
\* Main.processPromptInput, the loop: messages whose content is not text
\* are left out, the others keep their role.
TextMessages(pms) ==
  IF pms = <<>> THEN <<>>
  ELSE (IF Head(pms).Type # "text" THEN <<>>
        ELSE <<NewMessage(Head(pms).Role, <<TextContent(Head(pms).Text)>>)>>)
         \o TextMessages(Tail(pms))

\* Main.processPromptInput
processPromptInput(form, getPromptOK) ==
  IF form.prompt_args # "{}" THEN InputResult(500, <<>>)
  ELSE IF form.prompt_name \notin DOMAIN promptsMap THEN InputResult(500, <<>>)
  ELSE IF ~getPromptOK THEN InputResult(500, <<>>)
  ELSE InputResult(0, TextMessages(PromptMessages))

\* json.Unmarshal of the attached_resources field into a list of strings
ResourceURIs(field) ==
  CASE field = "[]"              -> [ok |-> TRUE, uris |-> <<>>]
    [] field = "[file:///a]"     -> [ok |-> TRUE, uris |-> <<"file:///a">>]
    [] field = "[unknown:///x]"  -> [ok |-> TRUE, uris |-> <<"unknown:///x">>]
    [] OTHER                     -> [ok |-> FALSE, uris |-> <<>>]

\* Main.processAttachedResources: one resource content for every URI
processAttachedResources(uris, readOK) ==
  IF \E i \in 1..Len(uris) : uris[i] \notin DOMAIN resourcesMap
    THEN [ok |-> FALSE, contents |-> <<>>]
  ELSE IF ~readOK THEN [ok |-> FALSE, contents |-> <<>>]
  ELSE [ok |-> TRUE, contents |-> [i \in 1..Len(uris) |-> ResourceContent]]

\* HandleChats: the resource contents are added to the last of the messages
AttachResources(msgs, contents) ==
  IF msgs = <<>> THEN msgs
  ELSE [msgs EXCEPT ![Len(msgs)].Contents = @ \o contents]

\* HandleChats, from the prompt name to the attached resources: userMessages,
\* or the status of the error answer.
ProcessForm(form, getPromptOK, readOK) ==
  LET first == IF form.prompt_name # "" THEN processPromptInput(form, getPromptOK)
               ELSE IF form.message = "" THEN InputResult(400, <<>>)
               ELSE InputResult(0, <<NewMessage(RoleUser, <<TextContent(form.message)>>)>>)
      parsed == ResourceURIs(form.attached_resources)
      read   == processAttachedResources(parsed.uris, readOK)
  IN IF first.status # 0 THEN first
     ELSE IF form.attached_resources \in {"", "[]"} THEN first
     ELSE IF ~parsed.ok THEN InputResult(400, <<>>)
     ELSE IF parsed.uris = <<>> THEN first
     ELSE IF ~read.ok THEN InputResult(500, <<>>)
     ELSE InputResult(0, AttachResources(first.msgs, read.contents))

\* the identifiers the store will give to the messages
WithIDs(msgs, base) ==
  [i \in 1..Len(msgs) |-> Message(base + i, msgs[i].Role, msgs[i].Contents)]

\* HandleChats, the input processing for a form drawn from forms.
Input(forms) ==
  /\ hpc = "input"
  /\ UNCHANGED <<avars, tvars, running>>
  /\ UNCHANGED <<store, chatExists, cvars, lvars, outcome, log, ccRuns, badCalls, invoked>>
  /\ \E form \in forms, getPromptOK \in BOOLEAN, readOK \in BOOLEAN :
       LET r == ProcessForm(form, getPromptOK, readOK)
       IN IF r.status # 0
            THEN /\ HandlerReturns
                 /\ status' = r.status
            ELSE /\ passes < MaxPasses
                 /\ userMessages' = WithIDs(r.msgs, Len(store))
                 /\ hpc' = "addMessages"
                 /\ UNCHANGED <<isNewChat, lastMessage, status>>

\* HandleChats, the input processing of a message without attachments.
ProcessInput == Input(PlainForms)

\* HandleChats, the input processing of any form; later requests are plain.
ProcessAnyInput == IF requests <= MaxForms THEN Input(Forms) ELSE Input(PlainForms)

\* HandleChats, one round of the loop that adds the user messages, and after
\* the last one the empty assistant message.
AddMessages ==
  /\ UNCHANGED <<avars, tvars, running>>
  /\ hpc = "addMessages"
  /\ UNCHANGED <<chatExists, cvars, lvars, outcome, badCalls, invoked>>
  /\ ccRuns' = <<>>
  /\ LET msg == IF userMessages # <<>> THEN Head(userMessages)
                ELSE Message(Len(store) + 1, RoleAssistant, <<>>)
     IN \E ok \in BOOLEAN :
          /\ log' = Append(log, Ev("AddMessage", "HandleChats", [msg |-> msg, ok |-> ok]))
          /\ IF ~ok
               THEN /\ UNCHANGED store
                    /\ HandlerReturns
                    /\ status' = 500
               ELSE /\ store' = AddMessage(store, msg)
                    /\ UNCHANGED <<isNewChat, lastMessage, status>>
                    /\ IF userMessages # <<>>
                         THEN /\ userMessages' = Tail(userMessages)
                              /\ hpc' = "addMessages"
                         ELSE /\ UNCHANGED userMessages
                              /\ hpc' = "startChat"

\* HandleChats, the end: reads the messages back, starts Main.chat on them,
\* for a new conversation generateChatTitle as well, and renders the answer.
StartChat ==
  /\ UNCHANGED <<avars, title, refresh, running>>
  /\ hpc = "startChat"
  /\ UNCHANGED <<store, chatExists, cvars, outcome, ccRuns, badCalls, invoked>>
  /\ HandlerReturns
  /\ \E r \in {"ok", "messagesFail", "renderFails"} :
       /\ log' = Append(log, Ev("Messages", "HandleChats",
                                [ok |-> r # "messagesFail", messages |-> <<>>]))
       /\ status' = IF r = "ok" THEN 200 ELSE 500
       /\ IF r # "messagesFail"
            THEN /\ lpc' = "Chat"
                 /\ messages' = store
                 /\ aiMsg' = Last(store)
                 /\ subscribers' = IF r = "ok" THEN 1 ELSE 0
                 /\ tpc' = IF isNewChat THEN "GenerateTitle" ELSE tpc
                 /\ generated' = IF isNewChat THEN "" ELSE generated
                 /\ UNCHANGED <<contentIdx, callToolFlag, badToolInputFlag, badToolInput>>
            ELSE UNCHANGED <<lvars, tpc, generated>>

\* -------------------------------------------------------------- Main.chat
messageIDTopic(id) == <<"message", id>>
DefaultTopic == <<"default", 0>>
PublishEv(type, topic, data) ==
  Ev("Publish", "chat", [type |-> type, topic |-> topic, data |-> data])
\* the deferred publish of the closeMessage event, on the default topic
CloseEv == PublishEv("closeMessage", DefaultTopic, << <<"bye">> >>)
\* the publish of the adapter's error text on the message's topic
ErrorEv(id) == PublishEv("messages", messageIDTopic(id), << <<"error", "llm error">> >>)
\* the publish of the rendered message on its topic
SnapshotEv(msg) == PublishEv("messages", messageIDTopic(msg.ID), RenderContents(msg.Contents))

\* mutant: the closeMessage event is published before the last events
Return_CloseFirst(how, events) ==
  /\ ResetLoop
  /\ outcome' = how
  /\ log' = log \o <<CloseEv>> \o events

\* Main.chat returns: the deferred function runs and the goroutine is gone.
Return(how, events) ==
  /\ ResetLoop
  /\ outcome' = how
  /\ log' = log \o events \o <<CloseEv>>

\* Top of the outer loop: a new streaming pass is requested for the
\* transcript, and an empty text item is opened in aiMsg.
Chat ==
  /\ UNCHANGED <<avars, status, tvars, running>>
  /\ lpc = "Chat"
  /\ passes < MaxPasses
  /\ lpc' = "range"
  /\ passes' = passes + 1
  /\ aiMsg' = [aiMsg EXCEPT !.Contents = Append(@, TextContent(""))]
  /\ contentIdx' = contentIdx + 1
  /\ callToolFlag' = FALSE
  /\ badToolInputFlag' = FALSE
  /\ badToolInput' = EmptyObject
  /\ log' = Append(log, Ev("Chat", "chat", [last |-> Last(messages)]))
  /\ UNCHANGED <<store, chatExists, requests, deltas, hvars, messages, outcome,
                 ccRuns, badCalls, invoked, subscribers>>

\* items an adapter may yield next; a tool call only while another pass may
\* start, content only while the adapter has content left
Yields ==
  LET content ==
        {TextContent(t) : t \in TextDeltas}
          \cup {ResourceContent}
          \cup {ToolResultContent("call-0", EmptyObject, FALSE)}
          \cup (IF passes < MaxPasses
                  THEN {CallToolContent(tc[1], "call-" \o ToString(passes), tc[2]) :
                          tc \in ToolCalls}
                  ELSE {})
  IN {[kind |-> "end", content |-> TextContent("")],
      [kind |-> "error", content |-> TextContent("")]}
       \cup (IF deltas < MaxDeltas
               THEN {[kind |-> "content", content |-> c] : c \in content}
               ELSE {})

\* mutant: chat returns on an adapter error without publishing it
OnLLMError_Silent(pulled) ==
  Return("llmError", <<pulled>>)

\* The range body when the adapter yields an error: the error text is
\* published on the message's topic and chat returns.
OnLLMError(pulled) ==
  Return("llmError", <<pulled, ErrorEv(aiMsg.ID)>>)

\* mutant: the outer loop does not break after a pass without a tool call
OnStreamEnd_Again(pulled) ==
  /\ lpc' = "Chat"
  /\ log' = Append(log, pulled)
  /\ UNCHANGED <<messages, aiMsg, contentIdx, callToolFlag, badToolInputFlag,
                 badToolInput, outcome, subscribers>>

\* The range over the stream ended: without a tool call the outer loop breaks.
OnStreamEnd(pulled) ==
  Return("completed", <<pulled>>)

\* mutant: text items are gathered and not written one by one
FoldText_Batched(c, pulled) ==
  /\ aiMsg' = [aiMsg EXCEPT !.Contents[contentIdx + 1].Text = @ \o c.Text]
  /\ lpc' = "range"
  /\ deltas' = deltas + 1
  /\ log' = Append(log, pulled)
  /\ UNCHANGED <<messages, contentIdx, callToolFlag, badToolInputFlag,
                 badToolInput, outcome, badCalls, subscribers>>

\* The range body for a text item: it is added to the open text item.
FoldText(c, pulled) ==
  /\ aiMsg' = [aiMsg EXCEPT !.Contents[contentIdx + 1].Text = @ \o c.Text]
  /\ lpc' = "UpdateMessage"
  /\ deltas' = deltas + 1
  /\ log' = Append(log, pulled)
  /\ UNCHANGED <<messages, contentIdx, callToolFlag, badToolInputFlag,
                 badToolInput, outcome, badCalls, subscribers>>

\* mutant: the tool call takes the place of the open text item
FoldCallTool_OverText(c, pulled) ==
  LET bad == ~MarshalRawOK(c.ToolInput)
      kept == IF bad THEN [c EXCEPT !.ToolInput = EmptyObject] ELSE c
  IN /\ badToolInputFlag' = bad
     /\ badToolInput' = IF bad THEN c.ToolInput ELSE badToolInput
     /\ callToolFlag' = TRUE
     /\ aiMsg' = [aiMsg EXCEPT !.Contents[Len(aiMsg.Contents)] = kept]
     /\ contentIdx' = contentIdx
     /\ badCalls' = IF bad
                      THEN badCalls \cup {<<aiMsg.ID, Len(aiMsg.Contents)>>}
                      ELSE badCalls
     /\ lpc' = "UpdateMessage"
     /\ deltas' = deltas + 1
     /\ log' = Append(log, pulled)
     /\ UNCHANGED <<messages, outcome, subscribers>>

\* The range body for a tool call: an input that does not marshal is set
\* aside and replaced by the empty object; the call is appended.
FoldCallTool(c, pulled) ==
  LET bad == ~MarshalRawOK(c.ToolInput)
      kept == IF bad THEN [c EXCEPT !.ToolInput = EmptyObject] ELSE c
  IN /\ badToolInputFlag' = bad
     /\ badToolInput' = IF bad THEN c.ToolInput ELSE badToolInput
     /\ callToolFlag' = TRUE
     /\ aiMsg' = [aiMsg EXCEPT !.Contents = Append(@, kept)]
     /\ contentIdx' = contentIdx + 1
     /\ badCalls' = IF bad
                      THEN badCalls \cup {<<aiMsg.ID, Len(aiMsg.Contents) + 1>>}
                      ELSE badCalls
     /\ lpc' = "UpdateMessage"
     /\ deltas' = deltas + 1
     /\ log' = Append(log, pulled)
     /\ UNCHANGED <<messages, outcome, subscribers>>

\* One round of the range over the stream, up to the store write: the
\* item is pulled and folded into aiMsg.
Pull ==
  /\ UNCHANGED <<avars, status, tvars, running, invoked>>
  /\ lpc = "range"
  /\ UNCHANGED <<store, chatExists, requests, passes, hvars, ccRuns>>
  /\ \E y \in Yields :
       LET c == y.content
           pulled == Ev("Pull", "chat", y)
       IN CASE y.kind = "end" ->
                 /\ OnStreamEnd(pulled)
                 /\ UNCHANGED <<deltas, badCalls>>
            [] y.kind = "error" ->
                 /\ OnLLMError(pulled)
                 /\ UNCHANGED <<deltas, badCalls>>
            [] y.kind = "content" /\ c.Type = ContentTypeText ->
                 FoldText(c, pulled)
            [] y.kind = "content" /\ c.Type = ContentTypeCallTool ->
                 FoldCallTool(c, pulled)
            [] OTHER ->
                 \* resource and tool-result content is not allowed
                 /\ Return("badContent", <<pulled>>)
                 /\ deltas' = deltas + 1
                 /\ UNCHANGED badCalls

\* mutant: chat goes on after a failed store write
OnUpdateMessage_ErrorIgnored(ok, wrote) ==
  /\ lpc' = "Publish"
  /\ log' = Append(log, wrote)
  /\ UNCHANGED <<messages, aiMsg, contentIdx, callToolFlag,
                 badToolInputFlag, badToolInput, outcome, subscribers>>

\* What chat does with the result of the store write: on an error it
\* returns, else it goes on to render and publish.
OnUpdateMessage(ok, wrote) ==
  IF ok
    THEN /\ lpc' = "Publish"
         /\ log' = Append(log, wrote)
         /\ UNCHANGED <<messages, aiMsg, contentIdx, callToolFlag,
                        badToolInputFlag, badToolInput, outcome, subscribers>>
    ELSE Return("storeError", <<wrote>>)

\* The store write of the round: the whole aiMsg.
LoopUpdateMessage ==
  /\ UNCHANGED <<avars, status, tvars, running>>
  /\ lpc = "UpdateMessage"
  /\ UNCHANGED <<chatExists, cvars, hvars, ccRuns, badCalls, invoked>>
  /\ \E ok \in BOOLEAN :
       /\ store' = IF ok THEN UpdateMessage(store, aiMsg) ELSE store
       /\ OnUpdateMessage(ok, Ev("UpdateMessage", "chat", [msg |-> aiMsg, ok |-> ok]))

\* The rest of the round: aiMsg is rendered and published on its topic;
\* after a tool call the range is left.
LoopPublish ==
  /\ UNCHANGED <<avars, status, tvars, running>>
  /\ lpc = "Publish"
  /\ UNCHANGED <<store, chatExists, cvars, hvars, ccRuns, badCalls, invoked>>
  /\ \E r \in {"ok", "renderFails", "publishFails"} :
       LET published == SnapshotEv(aiMsg)
       IN CASE r = "renderFails" -> Return("renderError", <<>>)
            [] r = "publishFails" -> Return("publishError", <<>>)
            [] OTHER ->
                 /\ lpc' = IF callToolFlag THEN "callTool" ELSE "range"
                 /\ log' = Append(log, published)
                 /\ UNCHANGED <<messages, aiMsg, contentIdx, callToolFlag,
                                badToolInputFlag, badToolInput, outcome, subscribers>>

\* mutant: the transcript of the next pass is not given the extended message
LoopCallTool_StaleTranscript ==
  /\ UNCHANGED <<avars, status, tvars, running>>
  /\ lpc = "callTool"
  /\ UNCHANGED <<store, chatExists, cvars, hvars, outcome, ccRuns, badCalls,
                 callToolFlag, badToolInputFlag, badToolInput, subscribers>>
  /\ LET n == Len(aiMsg.Contents)
         callToolContent == aiMsg.Contents[n]
         params == [Name |-> callToolContent.ToolName,
                    Arguments |-> callToolContent.ToolInput]
         withResult(res, failed) ==
           [aiMsg EXCEPT !.Contents =
              Append(@, ToolResultContent(callToolContent.CallToolID, res, failed))]
     IN /\ contentIdx' = contentIdx + 1
        /\ lpc' = "Chat"
        /\ IF badToolInputFlag
             THEN /\ aiMsg' = withResult(
                       callToolError("tool input " \o RawString(badToolInput)
                                       \o " is not valid json"), TRUE)
                  /\ UNCHANGED <<log, invoked>>
             ELSE \E o \in ProviderOutcomes :
                    LET r == callTool(params, o)
                    IN /\ aiMsg' = withResult(r.res, ~r.success)
                       /\ log' = Append(log, CallEv("chat", params, aiMsg.ID, n, r))
                       /\ invoked' = invoked \cup {<<aiMsg.ID, n>>}
        /\ messages' = messages

\* After a pass that gave a tool call: the tool result is the synthetic
\* failure for an invalid input, else what the gateway returns; it is
\* appended to aiMsg and to the transcript, and the outer loop continues.
LoopCallTool ==
  /\ UNCHANGED <<avars, status, tvars, running>>
  /\ lpc = "callTool"
  /\ UNCHANGED <<store, chatExists, cvars, hvars, outcome, ccRuns, badCalls,
                 callToolFlag, badToolInputFlag, badToolInput, subscribers>>
  /\ LET n == Len(aiMsg.Contents)
         callToolContent == aiMsg.Contents[n]
         params == [Name |-> callToolContent.ToolName,
                    Arguments |-> callToolContent.ToolInput]
         withResult(res, failed) ==
           [aiMsg EXCEPT !.Contents =
              Append(@, ToolResultContent(callToolContent.CallToolID, res, failed))]
     IN /\ contentIdx' = contentIdx + 1
        /\ lpc' = "Chat"
        /\ IF badToolInputFlag
             THEN /\ aiMsg' = withResult(
                       callToolError("tool input " \o RawString(badToolInput)
                                       \o " is not valid json"), TRUE)
                  /\ UNCHANGED <<log, invoked>>
             ELSE \E o \in ProviderOutcomes :
                    LET r == callTool(params, o)
                    IN /\ aiMsg' = withResult(r.res, ~r.success)
                       /\ log' = Append(log, CallEv("chat", params, aiMsg.ID, n, r))
                       /\ invoked' = invoked \cup {<<aiMsg.ID, n>>}
        /\ messages' = [messages EXCEPT ![Len(messages)] = aiMsg']

\* ------------------------------------------------------------- the title
\* the titles a title generator may answer with
Titles == {"first title", "second title"}

\* the variables the title code leaves alone
NotTitle == <<store, chatExists, cvars, hvars, lvars, outcome, log, ccRuns, badCalls, invoked,
              status, running>>

\* mutant: the title is replaced although the update of the store failed
generateChatTitleWrites_Always(ok, new, old) == new
\* generateChatTitle, what the store holds after its UpdateChat call
generateChatTitleWrites(ok, new, old) == IF ok THEN new ELSE old

\* generateChatTitle, the call of the title generator: answer is a title, or
\* "" for an error, after which the goroutine returns.
GenerateTitleWith(answer) ==
  /\ tpc = "GenerateTitle"
  /\ UNCHANGED <<avars, NotTitle, title, refresh>>
  /\ generated' = answer
  /\ tpc' = IF answer = "" THEN "none" ELSE "UpdateChat"

GenerateTitle == \E answer \in Titles \cup {""} : GenerateTitleWith(answer)

\* generateChatTitle, store.UpdateChat with the generated title and the
\* publication of the chat list, after which the goroutine returns.
TitleUpdateChatWith(ok) ==
  /\ tpc = "UpdateChat"
  /\ UNCHANGED <<avars, NotTitle, refresh>>
  /\ title' = generateChatTitleWrites(ok, generated, title)
  /\ generated' = ""
  /\ tpc' = "none"

TitleUpdateChat == \E ok \in BOOLEAN : TitleUpdateChatWith(ok)

\* mutant: the loop goes on to the first user message with a non-empty text
firstUserMessage_NonEmpty(msgs) ==
  LET found == {i \in 1..Len(msgs) :
                  /\ msgs[i].Role = RoleUser
                  /\ Len(msgs[i].Contents) > 0
                  /\ msgs[i].Contents[1].Type = ContentTypeText
                  /\ msgs[i].Contents[1].Text # ""}
      i == CHOOSE j \in found : \A k \in found : j <= k
  IN IF found = {} THEN "" ELSE msgs[i].Contents[1].Text

\* HandleRefreshTitle, the loop over the messages: the text of the first
\* user message whose first content is text, "" when there is none.
firstUserMessage(msgs) ==
  LET found == {i \in 1..Len(msgs) :
                  /\ msgs[i].Role = RoleUser
                  /\ Len(msgs[i].Contents) > 0
                  /\ msgs[i].Contents[1].Type = ContentTypeText}
      i == CHOOSE j \in found : \A k \in found : j <= k
  IN IF found = {} THEN "" ELSE msgs[i].Contents[1].Text

\* HandleRefreshTitle for a request that reads the messages msgs: what it
\* calls and what it answers.  The title generator and store.UpdateChat are
\* asked only when the handler reaches them.
RefreshTitle(n, method, chatID, read, gen, update, msgs) ==
  IF method # "POST" THEN RefreshAnswer(n, method, "n/a", "n/a", "n/a", "n/a", 405, "")
  ELSE IF chatID = "" THEN RefreshAnswer(n, method, chatID, "n/a", "n/a", "n/a", 400, "")
  ELSE IF read # "ok" THEN RefreshAnswer(n, method, chatID, read, "n/a", "n/a", 500, "")
  ELSE IF Len(msgs) = 0 THEN RefreshAnswer(n, method, chatID, read, "n/a", "n/a", 404, "")
  ELSE IF firstUserMessage(msgs) = ""
    THEN RefreshAnswer(n, method, chatID, read, "n/a", "n/a", 500, "")
  ELSE IF gen = "" THEN RefreshAnswer(n, method, chatID, read, "error", "n/a", 500, "")
  ELSE IF update # "ok" THEN RefreshAnswer(n, method, chatID, read, gen, update, 500, "")
  ELSE RefreshAnswer(n, method, chatID, read, gen, update, 200, gen)

\* A refresh-title request arrives and is answered.
HandleRefreshTitle ==
  /\ refresh.n < MaxRefresh
  /\ UNCHANGED <<avars, NotTitle, tpc, generated>>
  /\ \E method \in {"POST", "GET"}, chatID \in {"", "1"}, read \in {"ok", "error"},
        gen \in Titles \cup {""}, update \in {"ok", "error"} :
       /\ refresh' = RefreshTitle(refresh.n + 1, method, chatID, read, gen, update, store)
       /\ title' = IF refresh'.status = 200 THEN gen ELSE title

\* The process stops: the request being served, the turn and the record of
\* their calls are gone, the store keeps what was written.
Crash ==
  /\ UNCHANGED <<avars, title, refresh, running>>
  /\ hpc # "idle" \/ lpc # "none" \/ tpc # "none"
  /\ status' = IF hpc # "idle" THEN 0 ELSE status
  /\ tpc' = "none"
  /\ generated' = ""
  /\ HandlerReturns
  /\ ResetLoop
  /\ outcome' = IF lpc # "none" THEN "crashed" ELSE outcome
  /\ ccRuns' = <<>>
  /\ log' = <<>>
  /\ invoked' = {}
  /\ UNCHANGED <<store, chatExists, cvars, badCalls>>

\* The SSE session of the client that follows the turn ends: its request
\* is over, and with it its subscription to the topic of the message.
Disconnect ==
  /\ UNCHANGED <<avars, status, tvars, running>>
  /\ lpc # "none" /\ subscribers > 0
  /\ subscribers' = subscribers - 1
  /\ UNCHANGED <<store, chatExists, cvars, hvars, outcome, log, ccRuns, badCalls, invoked,
                 lpc, messages, aiMsg, contentIdx, callToolFlag, badToolInputFlag,
                 badToolInput>>

Loop == Chat \/ Pull \/ LoopUpdateMessage \/ LoopPublish \/ LoopCallTool

Next ==
  \/ HandleChats
  \/ continueChat
  \/ continueChatUpdate
  \/ ProcessInput
  \/ AddMessages
  \/ StartChat
  \/ Chat
  \/ Pull
  \/ LoopUpdateMessage
  \/ LoopPublish
  \/ LoopCallTool
  \/ Disconnect
  \/ Crash

Spec == Init /\ [][Next]_vars

\* The scheduler runs the chat goroutine while it can take a step.
FairSpec == Spec /\ WF_vars(Loop)

\* The handlers and the loop for requests of any form: prompts and attached
\* resources as well as plain messages.
InputNext ==
  \/ HandleChats
  \/ continueChat
  \/ continueChatUpdate
  \/ ProcessAnyInput
  \/ AddMessages
  \/ StartChat
  \/ Chat
  \/ Pull
  \/ LoopUpdateMessage
  \/ LoopPublish
  \/ LoopCallTool
  \/ Disconnect
  \/ Crash

InputSpec == Init /\ [][InputNext]_vars

\* The handlers, the loop and the generateChatTitle goroutine that a new
\* conversation starts next to the loop.
TitleNext ==
  \/ HandleChats
  \/ continueChat
  \/ continueChatUpdate
  \/ ProcessInput
  \/ AddMessages
  \/ StartChat
  \/ Chat
  \/ Pull
  \/ LoopUpdateMessage
  \/ LoopPublish
  \/ LoopCallTool
  \/ Disconnect
  \/ GenerateTitle
  \/ TitleUpdateChat
  \/ Crash

TitleSpec == Init /\ [][TitleNext]_vars

TypeOK ==
  /\ hpc \in {"idle", "continueChat", "continueChatUpdate", "input", "addMessages", "startChat"}
  /\ lpc \in {"none", "Chat", "range", "UpdateMessage", "Publish", "callTool"}
  /\ lpc # "none" => contentIdx = Len(aiMsg.Contents) - 1
  /\ \A i \in 1..Len(store) : store[i].ID = i
  /\ subscribers \in 0..1
  /\ lpc = "none" => subscribers = 0
  /\ tpc \in {"none", "GenerateTitle", "UpdateChat"}
  /\ title \in Titles \cup {""}
  /\ generated \in Titles \cup {""}
  /\ tpc = "UpdateChat" <=> generated # ""
  /\ refresh.n \in 0..MaxRefresh



\* --------------------------------------------------- overlapping requests
\* Requests that arrive while turns of the conversation are running.  A
\* request is taken from its first line to its answer; a turn gives text only.

\* a chat goroutine at work: the message it writes, the items it has pulled
\* and the text it has gathered
ChatInstance(msg, n, text) == [msg |-> msg, n |-> n, text |-> text]

\* HandleChats for a plain message: the conversation is created when there
\* is none, continueChat finds nothing to continue, the user message and
\* the empty assistant message are added and go m.chat starts the turn, for
\* a new conversation generateChatTitle as well;
\* or a step of it fails and nothing is started.  No line of it looks at
\* the turns that are running.
HandleChatsDuringTurn ==
  /\ requests < MaxRequests
  /\ requests' = requests + 1
  /\ UNCHANGED <<avars, hvars, lvars, passes, deltas, outcome, log, ccRuns, badCalls, invoked>>
  /\ UNCHANGED <<title, generated, refresh>>
  /\ \E ok \in BOOLEAN :
       IF ok /\ NothingToContinue(store)
         THEN LET r     == ProcessForm(Form("", "{}", "hello", ""), TRUE, TRUE)
                  users == WithIDs(r.msgs, Len(store))
                  am    == Message(Len(store) + Len(users) + 1, RoleAssistant, <<>>)
              IN /\ chatExists' = TRUE
                 /\ store' = AddMessage(store \o users, am)
                 /\ running' = running \cup {ChatInstance(am.ID, 0, "")}
                 /\ tpc' = IF chatExists THEN tpc ELSE "GenerateTitle"
                 /\ status' = 200
         ELSE /\ status' = 500
              /\ UNCHANGED <<store, chatExists, running, tpc>>

\* Main.chat, one round of the range for a text item: the text is added to
\* the goroutine's aiMsg and the message is written.
ChatInstanceWrites ==
  /\ UNCHANGED <<avars, chatExists, cvars, hvars, lvars, outcome, log, ccRuns, badCalls, invoked,
                 status, tvars>>
  /\ \E inst \in running, d \in TextDeltas :
       /\ inst.n < MaxDeltas
       /\ LET next == ChatInstance(inst.msg, inst.n + 1, inst.text \o d)
          IN /\ running' = (running \ {inst}) \cup {next}
             /\ store' = UpdateMessage(store, Message(inst.msg, RoleAssistant,
                                                      <<TextContent(next.text)>>))

\* Main.chat returns.
ChatInstanceReturns ==
  /\ UNCHANGED <<avars, store, chatExists, cvars, hvars, lvars, outcome, log, ccRuns,
                 badCalls, invoked, status, tvars>>
  /\ \E inst \in running : running' = running \ {inst}

OverlapNext ==
  \/ HandleChatsDuringTurn
  \/ ChatInstanceWrites
  \/ ChatInstanceReturns

OverlapSpec == Init /\ [][OverlapNext]_vars


\* ================================================== the provider adapters
\* (internal/services): one call of Chat, its sequence function and the
\* consumer that ranges over it.  The transport gives one event at a time;
\* the consumer answers each yield with whether it goes on.

\* ------------------------------------------------------------- strings
Chars == {" ", "\n", "x"}
\* unicode.IsSpace, on the characters of the model
IsSpace(c) == c \in {" ", "\n"}
RECURSIVE TrimLeft(_), TrimRight(_)
TrimLeft(str) ==
  IF str # <<>> /\ IsSpace(Head(str)) THEN TrimLeft(Tail(str)) ELSE str
TrimRight(str) ==
  IF str # <<>> /\ IsSpace(str[Len(str)])
    THEN TrimRight(SubSeq(str, 1, Len(str) - 1)) ELSE str
\* mutant: only the leading white space is cut
TrimSpace_LeftOnly(str) == TrimLeft(str)

\* strings.TrimSpace
TrimSpace(str) == TrimRight(TrimLeft(str))

\* mutant: the stop sequences are filtered but sent as configured
RECURSIVE validStopSequences_Untrimmed(_)
validStopSequences_Untrimmed(seqs) ==
  IF seqs = <<>> THEN <<>>
  ELSE (IF TrimSpace(Head(seqs)) # <<>> THEN <<Head(seqs)>> ELSE <<>>)
         \o validStopSequences_Untrimmed(Tail(seqs))

RECURSIVE validStopSequences(_)
\* Anthropic.doRequest: the stop sequences of the request.
validStopSequences(seqs) ==
  IF seqs = <<>> THEN <<>>
  ELSE LET trimmed == TrimSpace(Head(seqs))
       IN (IF trimmed # <<>> THEN <<trimmed>> ELSE <<>>)
            \o validStopSequences(Tail(seqs))

\* ---------------------------------------------------------------- errors
NoErr == <<>>
\* fmt.Errorf("<wrapper>: %w", cause)
Err(wrapper, cause) == <<wrapper, cause>>
ContextCanceled == <<"context canceled">>
TransportError  == <<"transport error">>
UnexpectedStatus == <<"unexpected status code">>
\* fmt.Errorf("content type %s is not supported for <role> messages", ct.Type)
ContentTypeError(type, role) == <<"content type", type, "is not supported for", role, "messages">>
\* errors.Is(err, context.Canceled)
IsCanceled(err) == err = ContextCanceled \/ (Len(err) = 2 /\ err[2] = ContextCanceled)

\* ---------------------------------------- the messages of the requests
\* anthropicMessageContent
AContent(type, text, id, name, input, toolUseID, content, isError) ==
  [type |-> type, text |-> text, id |-> id, name |-> name, input |-> input,
   tool_use_id |-> toolUseID, content |-> content, is_error |-> isError]
\* anthropicMessage
AMessage(role, content) == [role |-> role, content |-> content]
Converted(err, msgs) == [err |-> err, msgs |-> msgs]

\* Anthropic.processResourceContents, for a resource that is a text document
processResourceContents ==
  <<AContent("text", "[Document of type text/plain]", "", "", <<>>, "", <<>>, FALSE)>>

RECURSIVE processUserContents(_, _)
processUserContents(cs, contents) ==
  IF cs = <<>> THEN Converted(NoErr, <<AMessage(RoleUser, contents)>>)
  ELSE LET ct == Head(cs)
       IN CASE ct.Type = ContentTypeText ->
                 processUserContents(Tail(cs),
                   IF ct.Text # ""
                     THEN Append(contents, AContent("text", ct.Text, "", "", <<>>, "", <<>>, FALSE))
                     ELSE contents)
            [] ct.Type = ContentTypeResource ->
                 processUserContents(Tail(cs), contents \o processResourceContents)
            [] OTHER -> Converted(ContentTypeError(ct.Type, "user"), <<>>)
\* Anthropic.processUserMessage
processUserMessage(msg) == processUserContents(msg.Contents, <<>>)

RECURSIVE processOtherRoleContents(_, _, _, _)
\* Anthropic.processOtherRoleMessage, the loop over the contents: contents
\* are the blocks gathered for the next message, msgs the messages so far.
processOtherRoleContents(role, cs, contents, msgs) ==
  IF cs = <<>>
    THEN Converted(NoErr, IF contents # <<>> THEN Append(msgs, AMessage(role, contents))
                          ELSE msgs)
  ELSE LET ct == Head(cs)
       IN CASE ct.Type = ContentTypeText ->
                 processOtherRoleContents(role, Tail(cs),
                   IF ct.Text # ""
                     THEN Append(contents, AContent("text", ct.Text, "", "", <<>>, "", <<>>, FALSE))
                     ELSE contents,
                   msgs)
            [] ct.Type = ContentTypeCallTool ->
                 processOtherRoleContents(role, Tail(cs), <<>>,
                   Append(msgs, AMessage(role,
                     Append(contents, AContent("tool_use", "", ct.CallToolID, ct.ToolName,
                                               ct.ToolInput, "", <<>>, FALSE)))))
            [] ct.Type = ContentTypeToolResult ->
                 processOtherRoleContents(role, Tail(cs), contents,
                   Append(msgs, AMessage("user",
                     <<AContent("tool_result", "", "", "", <<>>, ct.CallToolID,
                                ct.ToolResult, ct.CallToolFailed)>>)))
            [] OTHER -> Converted(ContentTypeError(ct.Type, "assistant"), <<>>)
\* mutant: a message that gave no block is sent without blocks
processOtherRoleMessage_EmptyKept(msg) ==
  LET r == processOtherRoleContents(msg.Role, msg.Contents, <<>>, <<>>)
  IN IF r.err = NoErr /\ r.msgs = <<>>
       THEN Converted(NoErr, <<AMessage(msg.Role, <<>>)>>)
       ELSE r
\* Anthropic.processOtherRoleMessage
processOtherRoleMessage(msg) == processOtherRoleContents(msg.Role, msg.Contents, <<>>, <<>>)

RECURSIVE convertMessages(_)
\* Anthropic.convertMessages
convertMessages(msgs) ==
  IF msgs = <<>> THEN Converted(NoErr, <<>>)
  ELSE LET one == IF Head(msgs).Role = RoleUser THEN processUserMessage(Head(msgs))
                  ELSE processOtherRoleMessage(Head(msgs))
       IN IF one.err # NoErr THEN Converted(one.err, <<>>)
          ELSE LET rest == convertMessages(Tail(msgs))
               IN IF rest.err # NoErr THEN Converted(rest.err, <<>>)
                  ELSE Converted(NoErr, one.msgs \o rest.msgs)

\* goopenai.ChatCompletionMessage, openRouterMessageRequest and api.Message
OMessage(role, content, parts, toolCalls, toolCallID) ==
  [role |-> role, content |-> content, parts |-> parts, tool_calls |-> toolCalls,
   tool_call_id |-> toolCallID]
OToolCall(id, name, arguments) == [id |-> id, name |-> name, arguments |-> arguments]
\* strings.Join(<<a, b>>, "\n\n") for the text gathered so far and the next text
JoinText(a, b) == IF a = "" THEN b ELSE a \o "\n\n" \o b
\* convertResourceToTextForOpenAI and its twins, for a text document
ResourceText == "[Document of type text/plain]"
HasResource(cs) == \E i \in 1..Len(cs) : cs[i].Type = ContentTypeResource

RECURSIVE JoinTextContents(_)
\* processUserMessageForOpenAI without resources: only the texts are taken
JoinTextContents(cs) ==
  IF cs = <<>> THEN ""
  ELSE IF Head(cs).Type = ContentTypeText /\ Head(cs).Text # ""
         THEN JoinText(Head(cs).Text, JoinTextContents(Tail(cs)))
         ELSE JoinTextContents(Tail(cs))

RECURSIVE MultiContentOpenAI(_, _)
\* processUserMessageForOpenAI with resources
MultiContentOpenAI(cs, textContent) ==
  IF cs = <<>>
    THEN Converted(NoErr, <<OMessage(RoleUser, "",
                              IF textContent # "" THEN <<textContent>> ELSE <<>>, <<>>, "")>>)
  ELSE LET ct == Head(cs)
       IN CASE ct.Type = ContentTypeText ->
                 MultiContentOpenAI(Tail(cs),
                   IF ct.Text # "" THEN JoinText(textContent, ct.Text) ELSE textContent)
            [] ct.Type = ContentTypeResource ->
                 MultiContentOpenAI(Tail(cs), JoinText(textContent, ResourceText))
            [] OTHER -> Converted(ContentTypeError(ct.Type, "user"), <<>>)

processUserMessageForOpenAI(msg) ==
  IF ~HasResource(msg.Contents)
    THEN Converted(NoErr, <<OMessage(RoleUser, JoinTextContents(msg.Contents), <<>>, <<>>, "")>>)
    ELSE MultiContentOpenAI(msg.Contents, "")

RECURSIVE processUserContentsForOpenRouter(_, _)
processUserContentsForOpenRouter(cs, contents) ==
  IF cs = <<>> THEN Converted(NoErr, <<OMessage(RoleUser, "", contents, <<>>, "")>>)
  ELSE LET ct == Head(cs)
       IN CASE ct.Type = ContentTypeText ->
                 processUserContentsForOpenRouter(Tail(cs),
                   IF ct.Text # "" THEN Append(contents, ct.Text) ELSE contents)
            [] ct.Type = ContentTypeResource ->
                 processUserContentsForOpenRouter(Tail(cs), Append(contents, ResourceText))
            [] OTHER -> Converted(ContentTypeError(ct.Type, "user"), <<>>)
\* OpenRouter.processUserMessageForOpenRouter
processUserMessageForOpenRouter(msg) == processUserContentsForOpenRouter(msg.Contents, <<>>)

RECURSIVE ollamaUserContents(_, _)
\* ollamaMessages, a user message
ollamaUserContents(cs, content) ==
  IF cs = <<>> THEN Converted(NoErr, <<OMessage(RoleUser, content, <<>>, <<>>, "")>>)
  ELSE LET ct == Head(cs)
       IN CASE ct.Type = ContentTypeText -> ollamaUserContents(Tail(cs), content \o ct.Text)
            [] ct.Type = ContentTypeResource ->
                 ollamaUserContents(Tail(cs), content \o ResourceText)
            [] OTHER -> Converted(ContentTypeError(ct.Type, "user"), <<>>)

\* json.Unmarshal(raw, &map): the payload is an object, or null
UnmarshalsToMap(toks) == JSONValid(toks) /\ toks[1].t \in {"{", "lit"}

\* mutant: resource content of an assistant message is skipped
RECURSIVE otherRoleContents_ResourceSkipped(_, _, _, _)
otherRoleContents_ResourceSkipped(who, role, cs, msgs) ==
  IF cs = <<>> THEN Converted(NoErr, msgs)
  ELSE LET ct == Head(cs)
       IN CASE ct.Type = ContentTypeText ->
                 otherRoleContents_ResourceSkipped(who, role, Tail(cs),
                   IF ct.Text # "" THEN Append(msgs, OMessage(role, ct.Text, <<>>, <<>>, ""))
                   ELSE msgs)
            [] ct.Type = ContentTypeCallTool ->
                 IF who = "ollama" /\ ~UnmarshalsToMap(ct.ToolInput)
                   THEN Converted(Err("error unmarshaling tool input", <<"json">>), <<>>)
                   ELSE otherRoleContents_ResourceSkipped(who, role, Tail(cs),
                          Append(msgs, OMessage(IF who = "openrouter" THEN "assistant" ELSE role,
                            "", <<>>,
                            <<OToolCall(IF who = "ollama" THEN "" ELSE ct.CallToolID,
                                        ct.ToolName, ct.ToolInput)>>, "")))
            [] ct.Type = ContentTypeToolResult ->
                 otherRoleContents_ResourceSkipped(who, role, Tail(cs),
                   Append(msgs, OMessage("tool", RawString(ct.ToolResult), <<>>, <<>>,
                                         IF who = "ollama" THEN "" ELSE ct.CallToolID)))
            [] OTHER -> otherRoleContents_ResourceSkipped(who, role, Tail(cs), msgs)

RECURSIVE otherRoleContents(_, _, _, _)
\* The loop over the contents of a message that is not a user message, in
\* openAIMessages, OpenRouter.doRequest and ollamaMessages (who tells which).
otherRoleContents(who, role, cs, msgs) ==
  IF cs = <<>> THEN Converted(NoErr, msgs)
  ELSE LET ct == Head(cs)
       IN CASE ct.Type = ContentTypeText ->
                 otherRoleContents(who, role, Tail(cs),
                   IF ct.Text # "" THEN Append(msgs, OMessage(role, ct.Text, <<>>, <<>>, ""))
                   ELSE msgs)
            [] ct.Type = ContentTypeCallTool ->
                 IF who = "ollama" /\ ~UnmarshalsToMap(ct.ToolInput)
                   THEN Converted(Err("error unmarshaling tool input", <<"json">>), <<>>)
                   ELSE otherRoleContents(who, role, Tail(cs),
                          Append(msgs, OMessage(IF who = "openrouter" THEN "assistant" ELSE role,
                            "", <<>>,
                            <<OToolCall(IF who = "ollama" THEN "" ELSE ct.CallToolID,
                                        ct.ToolName, ct.ToolInput)>>, "")))
            [] ct.Type = ContentTypeToolResult ->
                 otherRoleContents(who, role, Tail(cs),
                   Append(msgs, OMessage("tool", RawString(ct.ToolResult), <<>>, <<>>,
                                         IF who = "ollama" THEN "" ELSE ct.CallToolID)))
            [] OTHER -> Converted(ContentTypeError(ct.Type, "assistant"), <<>>)

RECURSIVE providerMessages(_, _)
\* openAIMessages, the message loop of OpenRouter.doRequest, ollamaMessages
providerMessages(who, msgs) ==
  IF msgs = <<>> THEN Converted(NoErr, <<>>)
  ELSE LET msg == Head(msgs)
           one == IF msg.Role = RoleUser
                    THEN CASE who = "openai" -> processUserMessageForOpenAI(msg)
                           [] who = "openrouter" -> processUserMessageForOpenRouter(msg)
                           [] OTHER -> ollamaUserContents(msg.Contents, "")
                    ELSE otherRoleContents(who, msg.Role, msg.Contents, <<>>)
       IN IF one.err # NoErr THEN Converted(one.err, <<>>)
          ELSE LET rest == providerMessages(who, Tail(msgs))
               IN IF rest.err # NoErr THEN Converted(rest.err, <<>>)
                  ELSE Converted(NoErr, one.msgs \o rest.msgs)
openAIMessages(msgs) == providerMessages("openai", msgs)
ollamaMessages(msgs) == providerMessages("ollama", msgs)
\* slices.Insert(msgs, 0, the system prompt)
WithSystemPrompt(msgs) == <<OMessage("system", "system prompt", <<>>, <<>>, "")>> \o msgs

\* ------------------------------------------------ the calls of Chat
Adapters == {"anthropic", "openai", "openrouter", "ollama"}
\* models.Content{}
NoContent == Content("", "", "", <<>>, <<>>, "", FALSE)
\* the body of a request to the provider
Request(msgs, stopSequences) == [messages |-> msgs, stop |-> stopSequences]

\* yield(content, err): the consumer takes the item and answers whether it
\* goes on.  late tells that yield had returned false before this call, ctx
\* the state of the caller's context at the call.
Yield(content, err, goesOn) ==
  /\ yielded' = Append(yielded, [content |-> content, err |-> err,
                                  late |-> stopped, ctx |-> ctx])
  /\ stopped' = (stopped \/ ~goesOn)
\* yield(models.Content{}, err); return
YieldErrorAndReturn(err) ==
  /\ \E goesOn \in BOOLEAN : Yield(NoContent, err, goesOn)
  /\ apc' = "done"
\* return, with nothing yielded
SeqReturns ==
  /\ apc' = "done"
  /\ UNCHANGED <<yielded, stopped>>

\* the transport's context is done: the caller cancelled, or the adapter did
TransportCancelled == ctx = "cancelled" \/ cancelCalled

\* doRequest of Anthropic and OpenRouter, and what Chat does with its
\* result: a conversion error comes back before anything is sent; client.Do
\* gives context.Canceled for a cancelled context, and Chat then returns
\* without a word; any other error is yielded.
DoRequest(conv, stopSequences) ==
  IF conv.err # NoErr
    THEN /\ YieldErrorAndReturn(Err("error sending request", conv.err))
         /\ UNCHANGED request
  ELSE IF ctx = "cancelled"
    THEN /\ SeqReturns
         /\ UNCHANGED request
  ELSE /\ request' = Append(request, Request(conv.msgs, stopSequences))
       /\ \E r \in {"ok", "transportError", "badStatus"} :
            CASE r = "ok" -> /\ apc' = "recv"
                             /\ UNCHANGED <<yielded, stopped>>
              [] r = "transportError" ->
                   YieldErrorAndReturn(Err("error sending request", TransportError))
              [] OTHER ->
                   YieldErrorAndReturn(Err("error sending request", UnexpectedStatus))

\* Anthropic.Chat up to the range over the events.
AnthropicChat ==
  /\ adapter = "anthropic" /\ apc = "Chat"
  /\ DoRequest(convertMessages(transcript), validStopSequences(stop))
  /\ UNCHANGED <<mvars, adapter, ctx, cancelCalled, transcript, stop, toolUse, toolArgs,
                 toolContent, wire, nrecv, block>>

\* OpenRouter.Chat up to the range over the events.
OpenRouterChat ==
  /\ adapter = "openrouter" /\ apc = "Chat"
  /\ LET conv == providerMessages("openrouter", transcript)
     IN DoRequest(Converted(conv.err, WithSystemPrompt(conv.msgs)), stop)
  /\ UNCHANGED <<mvars, adapter, ctx, cancelCalled, transcript, stop, toolUse, toolArgs,
                 toolContent, wire, nrecv, block>>

\* OpenAI.Chat up to the Recv loop: an error of CreateChatCompletionStream
\* is yielded whatever it is.
OpenAIChat ==
  /\ adapter = "openai" /\ apc = "Chat"
  /\ UNCHANGED <<mvars, adapter, ctx, cancelCalled, transcript, stop, toolUse, toolArgs,
                 toolContent, wire, nrecv, block>>
  /\ LET conv == openAIMessages(transcript)
     IN IF conv.err # NoErr
          THEN /\ YieldErrorAndReturn(Err("error creating ollama messages", conv.err))
               /\ UNCHANGED request
        ELSE IF ctx = "cancelled"
          THEN /\ YieldErrorAndReturn(Err("error sending request", ContextCanceled))
               /\ UNCHANGED request
        ELSE /\ request' = Append(request, Request(WithSystemPrompt(conv.msgs), stop))
             /\ \E r \in {"ok", "transportError"} :
                  IF r = "ok"
                    THEN /\ apc' = "recv"
                         /\ UNCHANGED <<yielded, stopped>>
                    ELSE YieldErrorAndReturn(Err("error sending request", TransportError))

\* Ollama.Chat up to the call of client.Chat, which sends the request and
\* then pushes the responses to the callback.
OllamaChat ==
  /\ adapter = "ollama" /\ apc = "Chat"
  /\ UNCHANGED <<mvars, adapter, ctx, cancelCalled, transcript, stop, toolUse, toolArgs,
                 toolContent, wire, nrecv, block>>
  /\ LET conv == ollamaMessages(transcript)
     IN IF conv.err # NoErr
          THEN /\ YieldErrorAndReturn(Err("error creating ollama messages", conv.err))
               /\ UNCHANGED request
        ELSE IF ctx = "cancelled"
          THEN /\ SeqReturns
               /\ UNCHANGED request
        ELSE /\ request' = Append(request, Request(WithSystemPrompt(conv.msgs), stop))
             /\ \E r \in {"ok", "transportError"} :
                  IF r = "ok"
                    THEN /\ apc' = "recv"
                         /\ UNCHANGED <<yielded, stopped>>
                    ELSE YieldErrorAndReturn(Err("error sending request", TransportError))

\* ------------------------------------------------ what the provider sends
\* the tool calls a provider may signal in one turn, in this order
WireCalls == <<[name |-> "lookup", id |-> "c1"], [name |-> "other", id |-> "c2"]>>
\* fragments of the argument payload of a tool call
Frags == {<<>>, ValidInput}
\* a tool call as signalled so far: args is its payload as received
Signalled(name, id, args) == [name |-> name, id |-> id, args |-> args]
\* the fragment frag of the call number k has arrived
WireAdd(w, k, frag) ==
  IF k <= Len(w) THEN [w EXCEPT ![k].args = @ \o frag]
  ELSE Append(w, Signalled(WireCalls[k].name, WireCalls[k].id, frag))

\* One event of a stream; the fields an event does not have are empty.
StreamEvent(type, sub, text, frag, calls, cause) ==
  [type |-> type, sub |-> sub, text |-> text, frag |-> frag, calls |-> calls,
   cause |-> cause]
\* the transport fails: with the context's error once the context is done
ReadErrors ==
  {StreamEvent("readErr", "", "", <<>>, <<>>,
               IF TransportCancelled THEN ContextCanceled ELSE TransportError)}
EndOfStream == StreamEvent("eof", "", "", <<>>, <<>>, NoErr)

\* yield(content, nil) in the body of a stream loop; the position of the
\* sequence function after it: a call after yield returned false makes the
\* runtime panic
YieldContent(content, goesOn, ifOn, ifOff) ==
  /\ Yield(content, NoErr, goesOn)
  /\ apc' = IF stopped THEN "panic" ELSE IF goesOn THEN ifOn ELSE ifOff
\* the answers the consumer may give to the next yield
Answers == IF stopped THEN {FALSE} ELSE BOOLEAN

\* ----------------------------------------------------------- Anthropic
\* The events of the Messages stream: blocks come one after the other, each
\* as start, deltas, stop.
AnthropicEvents ==
  IF ctx = "cancelled" THEN ReadErrors
  ELSE ReadErrors
    \cup {EndOfStream,
          StreamEvent("message_stop", "", "", <<>>, <<>>, NoErr),
          StreamEvent("error", "ok", "", <<>>, <<>>, NoErr),
          StreamEvent("error", "malformed", "", <<>>, <<>>, NoErr)}
    \cup (IF nrecv >= MaxEvents THEN {}
          ELSE CASE block = "none" ->
                      {StreamEvent("ping", "", "", <<>>, <<>>, NoErr),
                       StreamEvent("content_block_start", "malformed", "", <<>>, <<>>, NoErr),
                       StreamEvent("content_block_start", "text", "", <<>>, <<>>, NoErr)}
                        \cup (IF Len(wire) < Len(WireCalls)
                                THEN {StreamEvent("content_block_start", "tool_use", "", <<>>,
                                                  <<Len(wire) + 1>>, NoErr)}
                                ELSE {})
                 [] block = "text" ->
                      {StreamEvent("content_block_delta", "text_delta", "a", <<>>, <<>>, NoErr),
                       StreamEvent("content_block_delta", "malformed", "", <<>>, <<>>, NoErr),
                       StreamEvent("content_block_stop", "", "", <<>>, <<>>, NoErr)}
                 [] OTHER ->
                      {StreamEvent("content_block_delta", "input_json_delta", "", f, <<>>, NoErr) :
                         f \in Frags}
                        \cup {StreamEvent("content_block_stop", "", "", <<>>, <<>>, NoErr)})

\* Anthropic.Chat, content_block_stop: the input of the tool call
\* mutant: the payload is emitted as it was received
AnthropicToolInput_AsReceived(inputJSON) == inputJSON
AnthropicToolInput(inputJSON) == IF inputJSON = <<>> THEN EmptyObject ELSE inputJSON

\* Anthropic.Chat, one round of the range over sse.Read, for the event ev.
AnthropicOn(ev) ==
  /\ adapter = "anthropic" /\ apc = "recv"
  /\ UNCHANGED <<mvars, adapter, ctx, cancelCalled, transcript, stop, request>>
  /\ nrecv' = nrecv + 1
  /\   CASE ev.type = "readErr" ->
              /\ YieldErrorAndReturn(Err("error reading response", ev.cause))
              /\ UNCHANGED <<toolUse, toolArgs, toolContent, wire, block>>
         [] ev.type \in {"eof", "message_stop"} ->
              /\ SeqReturns
              /\ UNCHANGED <<toolUse, toolArgs, toolContent, wire, block>>
         [] ev.type = "error" ->
              /\ YieldErrorAndReturn(IF ev.sub = "ok"
                                       THEN Err("anthropic error", <<"overloaded_error">>)
                                       ELSE Err("error unmarshaling error", <<"json">>))
              /\ UNCHANGED <<toolUse, toolArgs, toolContent, wire, block>>
         [] ev.type = "content_block_start" /\ ev.sub = "malformed" ->
              /\ YieldErrorAndReturn(Err("error unmarshaling block start", <<"json">>))
              /\ UNCHANGED <<toolUse, toolArgs, toolContent, wire, block>>
         [] ev.type = "content_block_start" /\ ev.sub = "text" ->
              /\ block' = "text"
              /\ UNCHANGED <<apc, yielded, stopped, toolUse, toolArgs, toolContent, wire>>
         [] ev.type = "content_block_start" /\ ev.sub = "tool_use" ->
              /\ block' = "tool_use"
              /\ toolUse' = TRUE
              /\ toolContent' = [toolContent EXCEPT !.ToolName = WireCalls[ev.calls[1]].name,
                                                    !.CallToolID = WireCalls[ev.calls[1]].id]
              /\ wire' = WireAdd(wire, ev.calls[1], <<>>)
              /\ UNCHANGED <<apc, yielded, stopped, toolArgs>>
         [] ev.type = "content_block_delta" /\ ev.sub = "malformed" ->
              /\ YieldErrorAndReturn(Err("error unmarshaling block delta", <<"json">>))
              /\ UNCHANGED <<toolUse, toolArgs, toolContent, wire, block>>
         [] ev.type = "content_block_delta" /\ ev.sub # "malformed" ->
              IF toolUse
                THEN /\ toolArgs' = toolArgs \o ev.frag
                     /\ wire' = WireAdd(wire, Len(wire), ev.frag)
                     /\ UNCHANGED <<apc, yielded, stopped, toolUse, toolContent, block>>
                ELSE /\ \E goesOn \in Answers :
                          YieldContent(TextContent(ev.text), goesOn, "recv", "done")
                     /\ UNCHANGED <<toolUse, toolArgs, toolContent, wire, block>>
         [] ev.type = "content_block_stop" ->
              /\ block' = "none"
              /\ IF ~toolUse
                   THEN UNCHANGED <<apc, yielded, stopped, toolUse, toolArgs, toolContent, wire>>
                   ELSE LET emitted == [toolContent EXCEPT
                                          !.ToolInput = AnthropicToolInput(toolArgs)]
                        IN /\ toolContent' = emitted
                           /\ UNCHANGED wire
                           /\ \E goesOn \in Answers :
                                /\ YieldContent(emitted, goesOn, "recv", "done")
                                /\ toolUse' = (~goesOn)
                                /\ toolArgs' = IF goesOn THEN <<>>
                                               ELSE AnthropicToolInput(toolArgs)
         [] OTHER ->
              UNCHANGED <<apc, yielded, stopped, toolUse, toolArgs, toolContent, wire, block>>

\* Anthropic.Chat, one round of the range over sse.Read.
AnthropicRead == \E ev \in AnthropicEvents : AnthropicOn(ev)

\* ------------------------------------------------- OpenAI and OpenRouter
\* One entry of delta.tool_calls: the first chunk of a call carries its id
\* and name, the later ones only a fragment of the arguments.
ToolCallDelta(index, id, name, args) ==
  [index |-> index, id |-> id, name |-> name, args |-> args]
FirstChunk(k, f) == ToolCallDelta(k, WireCalls[k].id, WireCalls[k].name, f)
NextChunk(k, f) == ToolCallDelta(k, "", "", f)
\* the tool_calls a chunk may carry, given the calls signalled so far
ToolCallDeltas ==
  {<<>>}
    \cup (IF wire = <<>>
            THEN {<<FirstChunk(1, f)>> : f \in Frags}
                   \cup {<<FirstChunk(1, <<>>), FirstChunk(2, ValidInput)>>}
            ELSE {<<NextChunk(1, ValidInput)>>})
    \cup (IF Len(wire) = 1 THEN {<<FirstChunk(2, f)>> : f \in Frags} ELSE {})
\* the events of a chat completion stream
Chunks ==
  IF nrecv >= MaxEvents THEN {}
  ELSE {StreamEvent("chunk", "", text, <<>>, calls, NoErr) :
          text \in {"", "a"}, calls \in ToolCallDeltas}
         \cup {StreamEvent("chunk", "nochoices", "", <<>>, <<>>, NoErr)}
\* the calls of a chunk have arrived
RECURSIVE WireAddAll(_, _)
WireAddAll(w, calls) ==
  IF calls = <<>> THEN w
  ELSE WireAddAll(WireAdd(w, Head(calls).index, Head(calls).args), Tail(calls))

\* the adapter's record of the tool call of the turn
ToolState(use, args, content) == [toolUse |-> use, toolArgs |-> args, toolContent |-> content]

\* mutant: the arguments of a chunk replace those gathered before
AccumulateToolCalls_Overwrite(st, calls) ==
  IF calls = <<>> THEN st
  ELSE ToolState(TRUE, calls[1].args,
                 IF st.toolUse THEN st.toolContent
                 ELSE [st.toolContent EXCEPT !.ToolName = calls[1].name,
                                             !.CallToolID = calls[1].id])
\* mutant: the name and the id are taken from every chunk
AccumulateToolCalls_LastWins(st, calls) ==
  IF calls = <<>> THEN st
  ELSE ToolState(TRUE, st.toolArgs \o calls[1].args,
                 [st.toolContent EXCEPT !.ToolName = calls[1].name,
                                        !.CallToolID = calls[1].id])

\* OpenAI.Chat and OpenRouter.Chat, if len(ToolCalls) > 0: only the first
\* entry is read; its arguments are appended, its name and id are kept from
\* the first chunk that has tool calls.
AccumulateToolCalls(st, calls) ==
  IF calls = <<>> THEN st
  ELSE ToolState(TRUE, st.toolArgs \o calls[1].args,
                 IF st.toolUse THEN st.toolContent
                 ELSE [st.toolContent EXCEPT !.ToolName = calls[1].name,
                                             !.CallToolID = calls[1].id])

\* if toolUse { ... yield(callToolContent, nil) } after the loop
EmitToolCall ==
  /\ apc = "final"
  /\ nrecv' = nrecv + 1
  /\ UNCHANGED <<mvars, adapter, ctx, cancelCalled, transcript, stop, request, toolUse,
                 wire, block>>
  /\ IF ~toolUse
       THEN /\ SeqReturns
            /\ UNCHANGED <<toolArgs, toolContent>>
       ELSE LET args    == IF toolArgs = <<>> THEN EmptyObject ELSE toolArgs
                emitted == [toolContent EXCEPT !.ToolInput = args]
            IN /\ toolArgs' = args
               /\ toolContent' = emitted
               /\ \E goesOn \in Answers : YieldContent(emitted, goesOn, "done", "done")

\* what stream.Recv may return
OpenAIEvents ==
  IF ctx = "cancelled" THEN ReadErrors ELSE ReadErrors \cup {EndOfStream} \cup Chunks

\* OpenAI.Chat, one round of the Recv loop for the event ev.
OpenAIOn(ev) ==
  /\ adapter = "openai" /\ apc = "recv"
  /\ UNCHANGED <<mvars, adapter, ctx, cancelCalled, transcript, stop, request, block>>
  /\ nrecv' = nrecv + 1
  /\   CASE ev.type = "eof" ->
              /\ apc' = "final"
              /\ UNCHANGED <<yielded, stopped, toolUse, toolArgs, toolContent, wire>>
         [] ev.type = "readErr" ->
              /\ IF IsCanceled(Err("", ev.cause))
                   THEN SeqReturns
                   ELSE YieldErrorAndReturn(Err("error receiving response", ev.cause))
              /\ UNCHANGED <<toolUse, toolArgs, toolContent, wire>>
         [] ev.type = "chunk" /\ ev.sub = "nochoices" ->
              UNCHANGED <<apc, yielded, stopped, toolUse, toolArgs, toolContent, wire>>
         [] OTHER ->
              \E goesOn \in Answers :
                /\ wire' = WireAddAll(wire, ev.calls)
                /\ IF ev.text # ""
                     THEN YieldContent(TextContent(ev.text), goesOn, "recv", "done")
                     ELSE UNCHANGED <<apc, yielded, stopped>>
                /\ LET st == IF ev.text # "" /\ (stopped \/ ~goesOn)
                               THEN ToolState(toolUse, toolArgs, toolContent)
                               ELSE AccumulateToolCalls(
                                      ToolState(toolUse, toolArgs, toolContent), ev.calls)
                   IN /\ toolUse' = st.toolUse
                      /\ toolArgs' = st.toolArgs
                      /\ toolContent' = st.toolContent

\* OpenAI.Chat, one round of the Recv loop.
OpenAIRecv == \E ev \in OpenAIEvents : OpenAIOn(ev)

\* OpenAI.Chat after the loop.
OpenAIEnd ==
  /\ adapter = "openai"
  /\ EmitToolCall

\* the events of the OpenRouter stream
OpenRouterEvents ==
  IF ctx = "cancelled" THEN ReadErrors
  ELSE ReadErrors
         \cup {EndOfStream,
               StreamEvent("[DONE]", "", "", <<>>, <<>>, NoErr),
               StreamEvent("error", "", "", <<>>, <<>>, NoErr),
               StreamEvent("malformed", "", "", <<>>, <<>>, NoErr)}
         \cup Chunks

\* mutant: the error envelope leaves the loop as the sentinel does
OpenRouterError_Break ==
  /\ \E goesOn \in BOOLEAN : Yield(NoContent, Err("openrouter error", <<"provider">>), goesOn)
  /\ apc' = "final"
\* OpenRouter.Chat, a payload that is an error envelope
OpenRouterError == YieldErrorAndReturn(Err("openrouter error", <<"provider">>))

\* OpenRouter.Chat, one round of the range over sse.Read for the event ev:
\* the tool calls of a chunk are read before its content, and a consumer
\* that stops on the content breaks the loop.
OpenRouterOn(ev) ==
  /\ adapter = "openrouter" /\ apc = "recv"
  /\ UNCHANGED <<mvars, adapter, ctx, cancelCalled, transcript, stop, request, block>>
  /\ nrecv' = nrecv + 1
  /\   CASE ev.type \in {"eof", "[DONE]"} ->
              /\ apc' = "final"
              /\ UNCHANGED <<yielded, stopped, toolUse, toolArgs, toolContent, wire>>
         [] ev.type = "readErr" ->
              /\ YieldErrorAndReturn(Err("error reading response", ev.cause))
              /\ UNCHANGED <<toolUse, toolArgs, toolContent, wire>>
         [] ev.type = "error" ->
              /\ OpenRouterError
              /\ UNCHANGED <<toolUse, toolArgs, toolContent, wire>>
         [] ev.type = "malformed" ->
              /\ YieldErrorAndReturn(Err("error unmarshaling response", <<"json">>))
              /\ UNCHANGED <<toolUse, toolArgs, toolContent, wire>>
         [] ev.type = "chunk" /\ ev.sub = "nochoices" ->
              UNCHANGED <<apc, yielded, stopped, toolUse, toolArgs, toolContent, wire>>
         [] OTHER ->
              LET st == AccumulateToolCalls(ToolState(toolUse, toolArgs, toolContent),
                                            ev.calls)
              IN /\ wire' = WireAddAll(wire, ev.calls)
                 /\ toolUse' = st.toolUse
                 /\ toolArgs' = st.toolArgs
                 /\ toolContent' = st.toolContent
                 /\ IF ev.text # ""
                      THEN \E goesOn \in Answers :
                             YieldContent(TextContent(ev.text), goesOn, "recv", "final")
                      ELSE UNCHANGED <<apc, yielded, stopped>>

\* OpenRouter.Chat, one round of the range over sse.Read.
OpenRouterRead == \E ev \in OpenRouterEvents : OpenRouterOn(ev)

\* OpenRouter.Chat after the loop.
OpenRouterEnd ==
  /\ adapter = "openrouter"
  /\ EmitToolCall

\* ---------------------------------------------------------------- Ollama
\* One entry of message.tool_calls: arguments is a JSON object, "absent"
\* when the field is missing.
OllamaToolCall(k, arguments) == [index |-> k, name |-> WireCalls[k].name, arguments |-> arguments]
\* the argument payload as it is on the wire
OllamaWireArgs(arguments) ==
  CASE arguments = "absent" -> <<>>
    [] arguments = "empty"  -> EmptyObject
    [] OTHER                -> ValidInput
\* json.Marshal of the decoded arguments: a nil map gives null
MarshalArguments(arguments) ==
  CASE arguments = "absent" -> <<Null>>
    [] arguments = "empty"  -> EmptyObject
    [] OTHER                -> ValidInput
\* the responses the client may push to the callback
OllamaResponses ==
  IF nrecv >= MaxEvents THEN {}
  ELSE {StreamEvent("response", "", text, <<>>, calls, NoErr) :
          text \in {"", "a"},
          calls \in {<<>>, <<OllamaToolCall(1, "absent")>>, <<OllamaToolCall(1, "empty")>>,
                     <<OllamaToolCall(1, "q")>>,
                     <<OllamaToolCall(1, "q"), OllamaToolCall(2, "q")>>}}
\* the calls of a response have arrived
RECURSIVE OllamaWire(_, _)
OllamaWire(w, calls) ==
  IF calls = <<>> THEN w
  ELSE OllamaWire(Append(w, Signalled(Head(calls).name, "",
                                      OllamaWireArgs(Head(calls).arguments))),
                  Tail(calls))

\* Ollama.Chat: client.Chat pushes one response to the callback, or returns.
\* The client goes on pushing the responses it has already read after the
\* adapter's cancel().
OllamaCallback ==
  /\ adapter = "ollama" /\ apc = "recv"
  /\ UNCHANGED <<mvars, adapter, ctx, transcript, stop, request, toolUse, toolArgs, block>>
  /\ nrecv' = nrecv + 1
  /\ \E ev \in (IF ctx = "cancelled" THEN ReadErrors
                ELSE ReadErrors \cup {EndOfStream} \cup OllamaResponses) :
       CASE ev.type = "eof" ->
              /\ SeqReturns
              /\ UNCHANGED <<cancelCalled, toolContent, wire>>
         [] ev.type = "readErr" ->
              /\ IF IsCanceled(Err("", ev.cause))
                   THEN SeqReturns
                   ELSE YieldErrorAndReturn(Err("error sending request", ev.cause))
              /\ UNCHANGED <<cancelCalled, toolContent, wire>>
         [] OTHER ->
              \E g1 \in Answers, g2 \in BOOLEAN :
                LET hasText   == ev.text # ""
                    hasCalls  == ev.calls # <<>>
                    reachCall == hasCalls /\ (~hasText \/ (g1 /\ ~stopped))
                    call      == CallToolContent(ev.calls[1].name, "",
                                                 MarshalArguments(ev.calls[1].arguments))
                    refused   == (hasText /\ ~g1) \/ (reachCall /\ ~g2)
                    item(c)   == [content |-> c, err |-> NoErr, late |-> stopped,
                                  ctx |-> ctx]
                IN /\ (~hasText => g1) /\ (~reachCall => g2)
                   /\ wire' = OllamaWire(wire, ev.calls)
                   /\ yielded' = yielded
                                   \o (IF hasText THEN <<item(TextContent(ev.text))>> ELSE <<>>)
                                   \o (IF reachCall THEN <<item(call)>> ELSE <<>>)
                   /\ stopped' = (stopped \/ refused)
                   /\ cancelCalled' = (cancelCalled \/ (~stopped /\ refused))
                   /\ toolContent' = IF reachCall THEN call ELSE toolContent
                   /\ apc' = IF stopped /\ (hasText \/ hasCalls) THEN "panic" ELSE "recv"

\* ------------------------------------------------------ a streamed turn
\* The subscriber goes away while the adapter is at work.
Cancel ==
  /\ adapter # "none" /\ apc \in {"Chat", "recv"} /\ ctx = "live"
  /\ ctx' = "cancelled"
  /\ UNCHANGED <<mvars, adapter, apc, cancelCalled, transcript, stop, request, toolUse,
                 toolArgs, toolContent, yielded, stopped, wire, nrecv, block>>

\* ----------------------------------------- the inputs of a call of Chat
Seqs(S, n) == UNION {[1..k -> S] : k \in 0..n}
ContentAlphabet ==
  {TextContent("a"), TextContent(""), ResourceContent,
   CallToolContent("lookup", "c1", ValidInput),
   ToolResultContent("c1", MarshalTextContent("r"), FALSE)}
\* a user message and the assistant message after it
Transcripts ==
  {<<Message(1, RoleUser, u), Message(2, RoleAssistant, a)>> :
     u \in Seqs(ContentAlphabet, MaxContents) \ {<<>>},
     a \in Seqs(ContentAlphabet, MaxContents)}
\* what HandleChats passes for the first message of a conversation
SimpleTranscript ==
  <<Message(1, RoleUser, <<TextContent("hello")>>), Message(2, RoleAssistant, <<>>)>>
StopLists == Seqs(Seqs(Chars, MaxStopLen), MaxStops)
\* params.Stop of the documented example: two spaces, a newline, " ok "
ExampleStops == << <<" ", " ">>, <<"\n">>, <<" ", "o", "k", " ">> >>

\* A call of Chat of one adapter, for a transcript or for configured stop
\* sequences, with a context that is live or already cancelled.
RequestInit ==
  /\ HandlersIdle
  /\ adapter \in Adapters
  /\ apc = "Chat"
  /\ ctx \in {"live", "cancelled"}
  /\ cancelCalled = FALSE
  /\ \/ transcript \in Transcripts /\ stop = <<>>
     \/ adapter = "anthropic" /\ transcript = SimpleTranscript /\ stop \in StopLists \cup {ExampleStops}
  /\ request = <<>>
  /\ toolUse = FALSE
  /\ toolArgs = <<>>
  /\ toolContent = NoToolContent
  /\ yielded = <<>>
  /\ stopped = FALSE
  /\ wire = <<>>
  /\ nrecv = 0
  /\ block = "none"

RequestNext == AnthropicChat \/ OpenAIChat \/ OpenRouterChat \/ OllamaChat

\* The calls of Chat up to the response of the provider.
RequestSpec == RequestInit /\ [][RequestNext]_vars

\* the content items Main.chat and continueChat put into an assistant message
TurnAlphabet ==
  {TextContent("a"), TextContent(""),
   CallToolContent("lookup", "c1", ValidInput),
   ToolResultContent("c1", MarshalTextContent("r"), FALSE),
   CallToolContent("ghost", "c2", EmptyObject),
   ToolResultContent("c2", callToolError("tool ghost is not found"), TRUE)}
\* Main.chat and continueChat append a tool result right after its tool call
LoopShaped(cs) ==
  \A i \in 1..Len(cs) :
    cs[i].Type = ContentTypeToolResult
      => /\ i > 1
         /\ cs[i - 1].Type = ContentTypeCallTool
         /\ cs[i - 1].CallToolID = cs[i].CallToolID
\* the transcript of the second turn of a conversation, as HandleChats
\* passes it: the first turn, the new user message, the empty assistant message
LoopTranscripts ==
  {<<Message(1, RoleUser, u), Message(2, RoleAssistant, a),
     Message(3, RoleUser, <<TextContent("b")>>), Message(4, RoleAssistant, <<>>)>> :
     u \in {<<TextContent("hello")>>, <<TextContent("hello"), ResourceContent>>},
     a \in {cs \in Seqs(TurnAlphabet, MaxTurnContents) : LoopShaped(cs)}}

\* Anthropic.Chat called for the second turn of a conversation.
SerializeInit ==
  /\ HandlersIdle
  /\ adapter = "anthropic"
  /\ apc = "Chat"
  /\ ctx \in {"live", "cancelled"}
  /\ cancelCalled = FALSE
  /\ transcript \in LoopTranscripts
  /\ stop = <<>>
  /\ request = <<>>
  /\ toolUse = FALSE
  /\ toolArgs = <<>>
  /\ toolContent = NoToolContent
  /\ yielded = <<>>
  /\ stopped = FALSE
  /\ wire = <<>>
  /\ nrecv = 0
  /\ block = "none"

SerializeNext == AnthropicChat

\* The serialization of the transcripts the handlers build.
SerializeSpec == SerializeInit /\ [][SerializeNext]_vars

\* One turn of an adapter over a transcript it accepts: the request, then
\* the stream of the provider and the answers of the consumer.
StreamInit ==
  /\ HandlersIdle
  /\ adapter \in Adapters
  /\ apc = "Chat"
  /\ ctx = "live"
  /\ cancelCalled = FALSE
  /\ transcript = SimpleTranscript
  /\ stop = <<>>
  /\ request = <<>>
  /\ toolUse = FALSE
  /\ toolArgs = <<>>
  /\ toolContent = NoToolContent
  /\ yielded = <<>>
  /\ stopped = FALSE
  /\ wire = <<>>
  /\ nrecv = 0
  /\ block = "none"

StreamNext ==
  \/ AnthropicChat
  \/ OpenAIChat
  \/ OpenRouterChat
  \/ OllamaChat
  \/ Cancel
  \/ AnthropicRead
  \/ OpenAIRecv
  \/ OpenAIEnd
  \/ OpenRouterRead
  \/ OpenRouterEnd
  \/ OllamaCallback

StreamSpec == StreamInit /\ [][StreamNext]_vars

\* --------------------------------------------- the refresh-title requests
\* the messages a conversation may hold: user text (empty when a prompt gave
\* an empty text), assistant text, and the assistant message of a turn that
\* has streamed nothing
StoredMessages ==
  {NewMessage(RoleUser, <<TextContent("")>>),
   NewMessage(RoleUser, <<TextContent("hello")>>),
   NewMessage(RoleAssistant, <<TextContent("hi")>>),
   NewMessage(RoleAssistant, <<>>)}
Stores == {WithIDs(msgs, 0) : msgs \in Seqs(StoredMessages, MaxMessages)}

\* Refresh-title requests for a conversation that is at rest.
RefreshInit ==
  /\ AdaptersIdle
  /\ HandlersQuiet
  /\ store \in Stores
  /\ chatExists \in (IF store = <<>> THEN BOOLEAN ELSE {TRUE})
  /\ title \in Titles \cup {""}

RefreshNext == HandleRefreshTitle

RefreshSpec == RefreshInit /\ [][RefreshNext]_vars


\* ================================================================ claims
IsCallTool(c)   == c.Type = ContentTypeCallTool
IsToolResult(c) == c.Type = ContentTypeToolResult
\* the tool call at cs[i] has a later tool result that carries its identifier
Resolved(cs, i) ==
  \E k \in (i + 1)..Len(cs) : IsToolResult(cs[k]) /\ cs[k].CallToolID = cs[i].CallToolID
\* the persisted messages end with an assistant message that ends with a tool call
EndsWithToolCall(msgs) ==
  /\ Len(msgs) > 0
  /\ msgs[Len(msgs)].Role = RoleAssistant
  /\ Len(msgs[Len(msgs)].Contents) > 0
  /\ IsCallTool(msgs[Len(msgs)].Contents[Len(msgs[Len(msgs)].Contents)])
\* Main.chat returns in this step (the process does not stop)
ChatReturns == lpc # "none" /\ lpc' = "none" /\ log' # <<>>
NormalEnds == {"completed", "llmError"}

\* C1: in every persisted assistant message, between two tool calls there
\* is a tool result, and a tool call that no later tool result names is the
\* last item of the message.
C1_NoTwoUnresolvedToolCalls ==
  \A m \in 1..Len(store) :
    store[m].Role = RoleAssistant =>
      LET cs == store[m].Contents
      IN /\ \A i, j \in 1..Len(cs) :
              (i < j /\ IsCallTool(cs[i]) /\ IsCallTool(cs[j]))
                => \E k \in (i + 1)..(j - 1) : IsToolResult(cs[k])
         /\ \A i \in 1..Len(cs) :
              (IsCallTool(cs[i]) /\ ~Resolved(cs, i)) => i = Len(cs)

\* C1 witness: a persisted assistant message with a resolved tool call and a
\* second, trailing one that has no result yet.
C1_Witness ==
  \E m \in 1..Len(store) :
    LET cs == store[m].Contents
    IN /\ store[m].Role = RoleAssistant
       /\ Len(cs) > 0
       /\ IsCallTool(cs[Len(cs)])
       /\ \E i \in 1..(Len(cs) - 1) : IsCallTool(cs[i]) /\ Resolved(cs, i)

\* C2: when chat returns because a stream ended or gave an error, every tool
\* result it appended to aiMsg is in the persisted message, right after its
\* tool call.
C2_ToolResultPersisted ==
  [][(ChatReturns /\ outcome' \in NormalEnds) =>
       \A k \in 1..Len(aiMsg.Contents) :
         IsToolResult(aiMsg.Contents[k]) =>
           LET p == store'[aiMsg.ID].Contents
           IN /\ Len(p) >= k
              /\ p[k] = aiMsg.Contents[k]
              /\ p[k - 1] = aiMsg.Contents[k - 1]]_vars

\* C3: a tool call whose input was not valid json is persisted with the
\* input {} and, once its turn has ended on a stream end or error, with a
\* failed tool result right after it; the gateway is never invoked for it.
C3_BadInputNeverReachesGateway ==
  outcome \in NormalEnds =>
    /\ \A i \in 1..Len(log) :
         log[i].op = "callTool" => <<log[i].arg.msg, log[i].arg.idx>> \notin badCalls
    /\ \A b \in badCalls :
         (lpc = "none" /\ b[1] = Len(store)) =>
           LET cs == store[b[1]].Contents
           IN /\ Len(cs) > b[2]
              /\ IsCallTool(cs[b[2]]) /\ cs[b[2]].ToolInput = EmptyObject
              /\ IsToolResult(cs[b[2] + 1]) /\ cs[b[2] + 1].CallToolFailed


\* a record of calls without a gateway invocation and without a store write
NoCallNoWrite(l) == \A i \in 1..Len(l) : l[i].op \notin {"callTool", "UpdateMessage"}
\* this step of continueChat leaves the store alone, invokes no tool and
\* leaves no write pending
ContinueIsNoop ==
  /\ store' = store
  /\ hpc' # "continueChatUpdate"
  /\ NoCallNoWrite(log')

C5_PendingCallResolvedFirst ==
  \A j \in 1..Len(log) :
    (/\ log[j].op \in {"AddMessage", "Chat"}
     /\ log[1].op = "Messages" /\ log[1].who = "continueChat" /\ log[1].arg.ok
     /\ EndsWithToolCall(log[1].arg.messages))
    => LET last == Last(log[1].arg.messages)
           c == Last(last.Contents)
       IN /\ j > 3
          /\ log[2].op = "callTool" /\ log[2].who = "continueChat"
          /\ log[2].arg.Name = c.ToolName /\ log[2].arg.Arguments = c.ToolInput
          /\ log[3].op = "UpdateMessage" /\ log[3].arg.ok
          /\ log[3].arg.msg =
               [last EXCEPT !.Contents =
                  Append(@, ToolResultContent(c.CallToolID, log[2].arg.res,
                                              ~log[2].arg.success))]
          /\ store[last.ID] = log[3].arg.msg

\* C5 witness: a request that found a pending tool call has started a new
\* streaming pass.
C5_Witness ==
  /\ Len(log) > 0
  /\ log[1].op = "Messages" /\ log[1].who = "continueChat" /\ log[1].arg.ok
  /\ EndsWithToolCall(log[1].arg.messages)
  /\ \E j \in 1..Len(log) : log[j].op = "Chat"

\* C6: when the persisted messages do not end with an assistant message
\* that ends with a tool call, continueChat invokes no tool and writes nothing.
C6_NoPendingCallNoop ==
  [][(hpc = "continueChat" /\ ~EndsWithToolCall(store)) => ContinueIsNoop]_vars

\* C6 witness: continueChat has run on a conversation whose last message is
\* an assistant message that ends with text.
C6_Witness ==
  /\ hpc = "input"
  /\ ccRuns # <<>> /\ Last(ccRuns) = "noop"
  /\ Len(store) > 0
  /\ Last(store).Role = RoleAssistant
  /\ Len(Last(store).Contents) > 0
  /\ Last(Last(store).Contents).Type = ContentTypeText


\* kinds of recorded calls
IsPull(e)      == e.op = "Pull"
IsDelta(e)     == /\ IsPull(e) /\ e.arg.kind = "content"
                  /\ e.arg.content.Type \in {ContentTypeText, ContentTypeCallTool}
IsLoopWrite(e) == e.op = "UpdateMessage" /\ e.who = "chat"
IsClose(e)     == e.op = "Publish" /\ e.arg.type = "closeMessage"
IsOnTopic(e)   == e.op = "Publish" /\ e.arg.type = "messages"
IsErrorText(e) == IsOnTopic(e) /\ e.arg.data # <<>> /\ e.arg.data[1][1] = "error"
IsSnapshot(e)  == IsOnTopic(e) /\ ~IsErrorText(e)

RECURSIVE Replayed(_, _)
\* The contents of aiMsg after the calls l[1..j]: a pass starts from the
\* transcript's last message plus an empty text item, a text item extends
\* the open text item, a tool call is appended (with {} for an invalid input).
Replayed(l, j) ==
  IF j = 0 THEN <<>>
  ELSE IF l[j].op = "Chat" THEN Append(l[j].arg.last.Contents, TextContent(""))
  ELSE IF IsDelta(l[j]) THEN
         LET before == Replayed(l, j - 1)
             c == l[j].arg.content
         IN IF c.Type = ContentTypeText
              THEN [before EXCEPT ![Len(before)].Text = @ \o c.Text]
              ELSE Append(before, IF JSONValid(c.ToolInput) THEN c
                                  ELSE [c EXCEPT !.ToolInput = EmptyObject])
  ELSE Replayed(l, j - 1)

RECURSIVE LastWritten(_, _)
\* The contents chat wrote last with success among the calls l[1..j].
LastWritten(l, j) ==
  IF j = 0 THEN <<>>
  ELSE IF IsLoopWrite(l[j]) /\ l[j].arg.ok THEN l[j].arg.msg.Contents
  ELSE LastWritten(l, j - 1)

\* C7: an item is pulled only at the start of a pass or after the snapshot
\* of the item before; each content item is followed by exactly one store
\* write, which carries the whole message with all items so far folded in
\* in order; a snapshot is published only right after that write succeeded
\* and renders the message just written, which is the persisted one.
C7_WriteThenPublishPerDelta ==
  /\ \A j \in 1..Len(log) :
       LET e == log[j]
       IN /\ IsPull(e) => (j > 1 /\ (log[j - 1].op = "Chat" \/ IsSnapshot(log[j - 1])))
          /\ (IsDelta(e) /\ j < Len(log)) => IsLoopWrite(log[j + 1])
          /\ IsLoopWrite(e) => /\ j > 1 /\ IsDelta(log[j - 1])
                               /\ e.arg.msg.Contents = Replayed(log, j)
          /\ IsSnapshot(e) => /\ j > 1 /\ IsLoopWrite(log[j - 1]) /\ log[j - 1].arg.ok
                              /\ e = SnapshotEv(log[j - 1].arg.msg)
  /\ (log # <<>> /\ IsSnapshot(Last(log))) =>
       Last(log).arg.data = RenderContents(store[Last(log).arg.topic[2]].Contents)

\* C7 witness: two content items were pulled, written and published, one
\* after the other.
C7_Witness ==
  \E i, j \in 1..Len(log) :
    /\ i + 3 = j
    /\ IsSnapshot(log[i]) /\ IsDelta(log[i + 1]) /\ IsLoopWrite(log[i + 2]) /\ IsSnapshot(log[j])
    /\ log[i].arg.data # log[j].arg.data

\* C8: after the tool step chat does not return but starts another pass; it
\* ends as completed exactly when a pass ends without a tool call; and,
\* streams being finite and gateway calls returning, a turn comes to an end.
C8_RunsUntilAPassWithoutToolCall ==
  /\ [][/\ (lpc = "callTool" /\ lpc' # "callTool") => (lpc' = "Chat" \/ log' = <<>>)
        /\ (ChatReturns /\ outcome' = "completed") => (lpc = "range" /\ ~callToolFlag)
        /\ (\E k \in (Len(log) + 1)..Len(log') :
              IsPull(log'[k]) /\ log'[k].arg.kind = "end")
             => (lpc' = "none" /\ outcome' = "completed")]_vars
  /\ (lpc # "none") ~> (lpc = "none")

\* C8 witness: a turn of three passes, two of them with a tool call, completed.
C8_Witness ==
  /\ lpc = "none" /\ outcome = "completed"
  /\ log # <<>> /\ IsClose(Last(log))
  /\ Cardinality({k \in 1..Len(log) : log[k].op = "Chat"}) >= 3

\* C9: a failed store write of chat is the last thing chat does, but for
\* the deferred closeMessage: no pull, gateway call, write or snapshot follows.
C9_WriteFailureEndsTurn ==
  \A i \in 1..Len(log) :
    (IsLoopWrite(log[i]) /\ ~log[i].arg.ok) =>
      /\ lpc = "none"
      /\ Len(log) = i + 1
      /\ IsClose(log[i + 1])

\* C9 witness: a store write of chat failed after an earlier one succeeded.
C9_Witness ==
  \E i, j \in 1..Len(log) :
    /\ i < j
    /\ IsLoopWrite(log[i]) /\ log[i].arg.ok
    /\ IsLoopWrite(log[j]) /\ ~log[j].arg.ok

\* the message of the turn the record is about
TurnMessage(l) == l[CHOOSE k \in 1..Len(l) : l[k].op = "Chat"].arg.last

\* C10: after an adapter error chat publishes the error text on the topic
\* of the message and returns; it writes nothing more, and the persisted
\* message is the one of the last successful write of the turn.
C10_AdapterErrorAbortsTurn ==
  \A i \in 1..Len(log) :
    (IsPull(log[i]) /\ log[i].arg.kind = "error") =>
      LET id == TurnMessage(log).ID
      IN /\ lpc = "none"
         /\ Len(log) = i + 2
         /\ IsErrorText(log[i + 1]) /\ log[i + 1].arg.topic = messageIDTopic(id)
         /\ IsClose(log[i + 2])
         /\ store[id].Contents = LastWritten(log, i)

\* C10 witness: the adapter gave an error after some content was persisted.
C10_Witness ==
  \E i \in 1..Len(log) :
    /\ IsPull(log[i]) /\ log[i].arg.kind = "error"
    /\ LastWritten(log, i) # <<>>
    /\ store[TurnMessage(log).ID].Contents # <<>>

\* the contents cs end with the tool call of the gateway call e, followed by
\* the tool result made of what the gateway returned
EndsWithCallAndResult(cs, e) ==
  LET n == Len(cs)
  IN /\ n >= 2
     /\ IsCallTool(cs[n - 1])
     /\ cs[n - 1].ToolName = e.arg.Name /\ cs[n - 1].ToolInput = e.arg.Arguments
     /\ cs[n] = ToolResultContent(cs[n - 1].CallToolID, e.arg.res, ~e.arg.success)

\* C11: after the gateway has returned to chat, with success or failure,
\* chat does not return: its payload is not empty, the next thing chat does
\* is to start a pass, and the last message of that pass's transcript ends
\* with the tool call followed by the tool result, whose CallToolFailed is
\* the negation of the returned success flag.
C11_GatewayReturnStartsNewPass ==
  \A i \in 1..Len(log) :
    (log[i].op = "callTool" /\ log[i].who = "chat") =>
      /\ log[i].arg.res # <<>>
      /\ i = Len(log) => (lpc = "Chat" /\ EndsWithCallAndResult(Last(messages).Contents, log[i]))
      /\ i < Len(log) => /\ log[i + 1].op = "Chat"
                         /\ log[i + 1].arg.last.Role = RoleAssistant
                         /\ EndsWithCallAndResult(log[i + 1].arg.last.Contents, log[i])

\* C11 witness: a pass was started right after the gateway returned a failure.
C11_Witness ==
  \E i \in 1..Len(log) :
    /\ i < Len(log)
    /\ log[i].op = "callTool" /\ log[i].who = "chat" /\ ~log[i].arg.success
    /\ log[i + 1].op = "Chat"
    /\ Last(log[i + 1].arg.last.Contents).CallToolFailed

\* C12: every gateway call returns a payload that is one well-formed JSON
\* value and a success flag; success is true only when the name is in the
\* routing table and the provider returned a result that serialized and
\* was not flagged as an error; for an unknown name no provider is invoked.
C12_GatewayTotal ==
  \A i \in 1..Len(log) :
    log[i].op = "callTool" =>
      LET a == log[i].arg
      IN /\ JSONValid(a.res)
         /\ a.success \in BOOLEAN
         /\ a.success => (a.Name \in DOMAIN toolsMap /\ a.provider /\ a.did = "ok")
         /\ a.Name \notin DOMAIN toolsMap => (~a.provider /\ ~a.success)

\* C12 witness: the gateway was called for an unknown name, and for a known
\* name whose provider flagged its result as an error.
C12_Witness ==
  \E i, j \in 1..Len(log) :
    /\ log[i].op = "callTool" /\ log[i].arg.Name \notin DOMAIN toolsMap
    /\ log[j].op = "callTool" /\ log[j].arg.did = "isError" /\ ~log[j].arg.success

\* chat does one of these after the calls recorded in l
ChatActs(l, l2) ==
  \E k \in (Len(l) + 1)..Len(l2) : l2[k].op \in {"Chat", "Pull", "UpdateMessage", "callTool"}

\* C13: once no subscriber is left on the topic of the running turn's
\* message, chat starts no pass, pulls no item, writes nothing and invokes
\* no tool any more.
C13_DisconnectStopsTurn ==
  [][(lpc # "none" /\ subscribers = 0) => ~ChatActs(log, log')]_vars

\* the transcript has an assistant message with a resource content item
HasAssistantResource(msgs) ==
  \E m \in 1..Len(msgs) : msgs[m].Role = RoleAssistant /\ HasResource(msgs[m].Contents)
IsContentTypeError(err) == Len(err) = 2 /\ Len(err[2]) > 0 /\ err[2][1] = "content type"

\* C19: for every adapter, a call of Chat whose transcript has an assistant
\* message with resource content yields one item, a content-type error,
\* then returns, and sends no request.
C19_AssistantResourceRejected ==
  (apc # "Chat" /\ HasAssistantResource(transcript)) =>
    /\ apc = "done"
    /\ Len(yielded) = 1
    /\ yielded[1].content = NoContent
    /\ IsContentTypeError(yielded[1].err)
    /\ request = <<>>

\* C19 witness: the Ollama adapter has refused a transcript whose assistant
\* message has a tool call, its result and then a resource.
C19_Witness ==
  /\ adapter = "ollama" /\ apc = "done"
  /\ Len(transcript) = 2
  /\ transcript[1].Contents = <<TextContent("a")>>
  /\ Len(transcript[2].Contents) = 2
  /\ transcript[2].Contents[1].Type = ContentTypeCallTool
  /\ transcript[2].Contents[2].Type = ContentTypeResource
  /\ Len(yielded) = 1 /\ yielded[1].err # NoErr

\* the characters of str that are left when the white space at both ends is taken off
Stripped(str) ==
  LET ns == {i \in 1..Len(str) : ~IsSpace(str[i])}
  IN IF ns = {} THEN <<>>
     ELSE SubSeq(str, CHOOSE i \in ns : \A j \in ns : i <= j,
                      CHOOSE i \in ns : \A j \in ns : i >= j)
\* out is the list l without its blank elements, each stripped, in order
IsStrippedSublist(out, l) ==
  LET kept == {i \in 1..Len(l) : Stripped(l[i]) # <<>>}
  IN /\ Len(out) = Cardinality(kept)
     /\ \A i \in kept :
          out[Cardinality({j \in kept : j <= i})] = Stripped(l[i])

\* C20: the stop sequences of a request the Anthropic adapter sends are the
\* configured ones, each without the white space around it, those that are
\* blank left out, in the configured order.
C20_StopSequencesTrimmed ==
  (adapter = "anthropic" /\ request # <<>>) =>
    IsStrippedSublist(request[1].stop, stop)

\* C20 witness: a request was sent for a blank stop sequence followed by
\* one with white space around it.
C20_Witness ==
  /\ adapter = "anthropic" /\ request # <<>>
  /\ stop = << <<" ">>, <<" ", "x">> >>
  /\ request[1].stop = << <<"x">> >>

\* the positions of the tool-call contents the consumer was handed
ToolCallItems == {i \in 1..Len(yielded) : yielded[i].content.Type = ContentTypeCallTool}

\* C14: an adapter never calls yield again after yield has returned false.
C14_NoYieldAfterStop ==
  \A i \in 1..Len(yielded) : ~yielded[i].late

\* C15: no error item is yielded once the context passed to Chat is
\* cancelled.
C15_CancelledIsSilent ==
  \A i \in 1..Len(yielded) : yielded[i].ctx = "cancelled" => yielded[i].err = NoErr

\* C16: a consumer that keeps pulling is handed at most one tool-call
\* content in one Chat sequence.
C16_AtMostOneToolCall ==
  Cardinality({i \in ToolCallItems : ~yielded[i].late}) <= 1

\* C17: when the turn has signalled two tool calls, the first tool-call
\* content of the sequence, which is the one Main.chat appends to the
\* assistant message before it leaves the range, has the name and the
\* identifier of the first signalled call.
C17_FirstCallRetained ==
  (Len(wire) >= 2 /\ ToolCallItems # {}) =>
    LET first == yielded[CHOOSE i \in ToolCallItems : \A j \in ToolCallItems : i <= j].content
    IN /\ first.ToolName = wire[1].name
       /\ first.CallToolID = wire[1].id

\* C17 witness: a chat completion stream has signalled a second call after
\* the first and the sequence has ended with its tool-call content.
C17_Witness ==
  /\ adapter \in {"openai", "openrouter"} /\ apc = "done"
  /\ Len(wire) = 2 /\ wire[2].args = ValidInput
  /\ ToolCallItems # {}
  /\ toolContent.ToolName = "lookup" /\ toolContent.CallToolID = "c1"

\* C18: when every tool call of the turn came with an empty or absent
\* argument payload, the ToolInput of every tool-call content is {}.
C18_EmptyInputIsObject ==
  (\A k \in 1..Len(wire) : wire[k].args \in {<<>>, EmptyObject}) =>
    \A i \in ToolCallItems : yielded[i].content.ToolInput = EmptyObject

\* C21, as stated: for the stop sequences "  ", "\n", " ok " the request of
\* the Anthropic adapter carries the stop sequences "\n", "ok".
C21_ExampleAsStated ==
  (adapter = "anthropic" /\ stop = ExampleStops /\ request # <<>>) =>
    request[1].stop = << <<"\n">>, <<"o", "k">> >>

\* C21, amended: for the stop sequences "  ", "\n", " ok " the request of the
\* Anthropic adapter carries the one stop sequence "ok": the newline is
\* white space and is dropped like the two spaces.
C21_ExampleTrimmed ==
  (adapter = "anthropic" /\ stop = ExampleStops /\ request # <<>>) =>
    request[1].stop = << <<"o", "k">> >>

\* C21 witness: the request for the example's stop sequences was sent.
C21_Witness ==
  /\ adapter = "anthropic" /\ stop = ExampleStops
  /\ Len(request) = 1 /\ apc = "recv"

RECURSIVE PulledText(_)
\* the text items pulled from the adapter in l, put together in order
PulledText(l) ==
  IF l = <<>> THEN ""
  ELSE (IF Head(l).op = "Pull" /\ Head(l).arg.kind = "content"
           /\ Head(l).arg.content.Type = ContentTypeText
          THEN Head(l).arg.content.Text ELSE "")
         \o PulledText(Tail(l))
\* the positions in l of the pulls of a content item of the given type
PullsOf(l, type) ==
  {i \in 1..Len(l) : /\ l[i].op = "Pull" /\ l[i].arg.kind = "content"
                     /\ l[i].arg.content.Type = type}
\* the turn of the request that created the conversation has ended after
\* one pass that gave no tool call
NewChatTurnCompleted ==
  /\ lpc = "none" /\ hpc = "idle" /\ outcome = "completed"
  /\ Len(log) > 4 /\ log[1].op = "AddChat" /\ Last(log) = CloseEv
  /\ PullsOf(log, ContentTypeCallTool) = {}
\* what HandleChats wrote for a plain message to a new conversation
NewChatMessagesAdded ==
  /\ log[1].arg.ok
  /\ log[2] = Ev("AddMessage", "HandleChats",
                 [msg |-> Message(1, RoleUser, <<TextContent("hello")>>), ok |-> TRUE])
  /\ log[3] = Ev("AddMessage", "HandleChats",
                 [msg |-> Message(2, RoleAssistant, <<>>), ok |-> TRUE])
  /\ Len(store) = 2 /\ store[1] = log[2].arg.msg

\* C22: after a plain message to a new conversation and one pass
\* of text items only, the store holds the user message with the input as
\* its one text item and the assistant message with one text item, the
\* pulled texts put together in order.
C22_TextTurnPersisted ==
  NewChatTurnCompleted =>
    /\ NewChatMessagesAdded
    /\ store[2] = Message(2, RoleAssistant, <<TextContent(PulledText(log))>>)

\* the content types a message of the role may hold
AllowedTypes(role) ==
  IF role = RoleUser THEN {ContentTypeText, ContentTypeResource}
  ELSE {ContentTypeText, ContentTypeCallTool, ContentTypeToolResult}

\* C23: every persisted user message holds only text and resource content,
\* every persisted assistant message only text, tool-call and tool-result
\* content.
C23_RoleContentInvariant ==
  \A i \in 1..Len(store) :
    /\ store[i].Role \in {RoleUser, RoleAssistant}
    /\ \A k \in 1..Len(store[i].Contents) :
         store[i].Contents[k].Type \in AllowedTypes(store[i].Role)

RECURSIVE TextsUpTo(_)
\* the texts that up to n text items of an adapter make
TextsUpTo(n) ==
  IF n = 0 THEN {""}
  ELSE LET shorter == TextsUpTo(n - 1)
       IN shorter \cup {t \o d : t \in shorter, d \in TextDeltas}
\* the snapshot after of a message follows the snapshot before: no item is
\* gone or moved, tool calls and tool results are as they were, a text item
\* has only grown at its end, and only as the last item
FollowsSnapshot(before, after) ==
  /\ Len(after) >= Len(before)
  /\ \A k \in 1..Len(before) :
       \/ after[k] = before[k]
       \/ /\ before[k].Type = ContentTypeText
          /\ k = Len(after)
          /\ \E t \in TextsUpTo(MaxDeltas) :
               after[k] = [before[k] EXCEPT !.Text = @ \o t]

\* C24: from one persisted snapshot of an assistant message to the next, no
\* content item is removed or moved, no tool call or tool result changes,
\* and a text item changes only by growing at its end while it is the last
\* item.
C24_SnapshotsOnlyGrow ==
  [][\A i \in 1..Len(store) :
       /\ Len(store') >= Len(store)
       /\ store'[i].ID = store[i].ID
       /\ store[i].Role = RoleAssistant =>
            FollowsSnapshot(store[i].Contents, store'[i].Contents)]_vars

\* C24 witness: a persisted assistant message holds a closed text item, a
\* tool call, its result and the text of the next pass.
C24_Witness ==
  \E i \in 1..Len(store) :
    /\ store[i].Role = RoleAssistant
    /\ Len(store[i].Contents) = 4
    /\ store[i].Contents[1].Type = ContentTypeText
    /\ store[i].Contents[2].Type = ContentTypeCallTool
    /\ store[i].Contents[3].Type = ContentTypeToolResult
    /\ store[i].Contents[4] = TextContent("a")

\* every tool result of the message follows a tool call that has its identifier
ResultsFollowTheirCalls(cs) ==
  \A k \in 1..Len(cs) :
    cs[k].Type = ContentTypeToolResult =>
      /\ k > 1
      /\ cs[k - 1].Type = ContentTypeCallTool
      /\ cs[k].CallToolID = cs[k - 1].CallToolID

\* C25: every tool result the loop or the recovery has appended, in the
\* message they hold and in the persisted messages, has the CallToolID of
\* the tool call right before it in the same message.
C25_ResultCarriesCallID ==
  /\ ResultsFollowTheirCalls(aiMsg.Contents)
  /\ ResultsFollowTheirCalls(lastMessage.Contents)
  /\ \A i \in 1..Len(store) : ResultsFollowTheirCalls(store[i].Contents)

\* C25 witness: the recovery has persisted the result of a pending call of
\* the second pass, after the loop had persisted the result of the first.
C25_Witness ==
  /\ ccRuns # <<>> /\ Last(ccRuns) = "resolved"
  /\ \E i \in 1..Len(store) :
       LET cs == store[i].Contents
       IN /\ Len(cs) >= 5
          /\ Last(cs).Type = ContentTypeToolResult
          /\ Last(cs).CallToolID = "call-2"
          /\ \E k \in 1..(Len(cs) - 2) :
               cs[k].Type = ContentTypeToolResult /\ cs[k].CallToolID = "call-1"

\* C26: at most one chat goroutine is at work on the messages of the
\* conversation, whenever its requests arrive.
C26_OneLoopPerConversation ==
  Cardinality(running) <= 1

\* the request of the log has added the empty assistant message
EmptyAssistantAdded(l) ==
  \E j \in 1..Len(l) :
    /\ l[j].op = "AddMessage" /\ l[j].arg.ok
    /\ l[j].arg.msg.Role = RoleAssistant /\ l[j].arg.msg.Contents = <<>>

\* C27: a request that HandleChats has answered with an error status has
\* added no empty assistant message and has started no loop.
C27_ErrorAnswerLeavesNoTurn ==
  (hpc = "idle" /\ status \in {400, 405, 500}) =>
    /\ lpc = "none"
    /\ ~EmptyAssistantAdded(log)

\* the message starts with a text content
StartsWithText(m) == Len(m.Contents) > 0 /\ m.Contents[1].Type = ContentTypeText
\* some user message of msgs starts with a non-empty text content
SomeUserText(msgs) ==
  \E i \in 1..Len(msgs) :
    msgs[i].Role = RoleUser /\ StartsWithText(msgs[i]) /\ msgs[i].Contents[1].Text # ""
\* the first user message of msgs that starts with a text content has a
\* non-empty text there
FirstUserText(msgs) ==
  \E i \in 1..Len(msgs) :
    /\ msgs[i].Role = RoleUser /\ StartsWithText(msgs[i]) /\ msgs[i].Contents[1].Text # ""
    /\ \A k \in 1..(i - 1) : ~(msgs[k].Role = RoleUser /\ StartsWithText(msgs[k]))
\* the answer a is an error answer of a request that has left the title alone
RefreshRefused(a) == a.status \in {405, 400, 404, 500} /\ title' = title
\* the answer a returns the generated title, which is the stored title now
RefreshStored(a) == a.status = 200 /\ a.body = a.gen /\ title' = a.gen

\* C28 as stated: a refresh-title request stores and returns the generated
\* title when the method is POST, chat_id is not empty, the conversation has
\* messages, some user message starts with a non-empty text and the title
\* generator succeeds; every other request is answered with 405, 400, 404 or
\* 500 and leaves the title as it was.
C28_RefreshAsStated ==
  [][refresh' # refresh =>
       LET a == refresh'
       IN IF /\ a.method = "POST" /\ a.chat_id \notin {"", "n/a"}
             /\ Len(store) > 0 /\ SomeUserText(store)
             /\ a.gen \in Titles
            THEN RefreshStored(a)
            ELSE RefreshRefused(a)]_vars

\* C28: a refresh-title request stores and returns the generated title when
\* the method is POST, chat_id is not empty, the messages are read and there
\* are some, the first user message that starts with a text content has a
\* non-empty text there, the title generator succeeds and the store accepts
\* the update; every other request is answered with 405, 400, 404 or 500
\* and leaves the title as it was.
C28_RefreshStoresOrRefuses ==
  [][refresh' # refresh =>
       LET a == refresh'
       IN IF /\ a.method = "POST" /\ a.chat_id \notin {"", "n/a"}
             /\ a.read = "ok" /\ Len(store) > 0 /\ FirstUserText(store)
             /\ a.gen \in Titles /\ a.update = "ok"
            THEN RefreshStored(a)
            ELSE RefreshRefused(a)]_vars

\* a second refresh has stored and returned a title for a conversation whose
\* first user message has a text and whose later user message has none
C28_Witness ==
  /\ refresh.n = 2 /\ refresh.status = 200
  /\ title = refresh.body /\ title \in Titles
  /\ FirstUserText(store) /\ Len(store) = 3
  /\ store[3].Role = RoleUser /\ store[3].Contents[1].Text = ""

\* C29: a step of the generateChatTitle goroutine leaves the messages, the
\* loop and the request being served as they are, and a step in which the
\* title generator or the update of the store fails leaves the title as it
\* is, wherever the loop stands.
C29_TitleBesideLoop ==
  [][(GenerateTitle \/ TitleUpdateChat) =>
       /\ UNCHANGED <<store, lvars, hvars, cvars, outcome, log>>
       /\ (GenerateTitleWith("") \/ TitleUpdateChatWith(FALSE)) => title' = title]_vars

\* the handler has answered, the title is stored and the goroutine is gone
\* while the loop is in the middle of its turn
C29_Witness ==
  /\ hpc = "idle" /\ status = 200
  /\ lpc = "range" /\ deltas > 0
  /\ tpc = "none" /\ title \in Titles

\* what the round for the event ev has yielded
YieldedBy(ev) == SubSeq(yielded', Len(yielded) + 1, Len(yielded'))
\* the payload a tool call is emitted with: as received, or the empty
\* object in place of an empty payload when asObject
EmittedInput(args, asObject) == IF asObject /\ args = <<>> THEN EmptyObject ELSE args
\* The round of Anthropic.Chat for the event ev: a tool call is yielded by
\* the content_block_stop of a tool_use block and by nothing else, with the
\* name and the id of the block's start and the payload of its deltas; a
\* delta of a tool_use block yields no content; message_stop yields nothing
\* and ends the sequence; an error event yields one error and ends it.
AnthropicRound(ev, asObject) ==
  LET new == YieldedBy(ev)
      closes == ev.type = "content_block_stop" /\ block = "tool_use"
  IN /\ Len(new) <= 1
     /\ closes <=> (new # <<>> /\ new[1].content.Type = ContentTypeCallTool)
     /\ closes => /\ new[1].err = NoErr
                  /\ new[1].content =
                       CallToolContent(Last(wire).name, Last(wire).id,
                                       EmittedInput(Last(wire).args, asObject))
     /\ (ev.type = "content_block_delta" /\ block = "tool_use") =>
          (new = <<>> \/ new[1].err # NoErr)
     /\ ev.type = "message_stop" => (new = <<>> /\ apc' = "done")
     /\ ev.type = "error" => (Len(new) = 1 /\ new[1].err # NoErr /\ apc' = "done")

IsErrorItem(y) == y.err # NoErr /\ y.content = NoContent
\* C31: in the OpenRouter adapter the round for the [DONE] sentinel yields
\* nothing and leaves the loop, after which only the tool call gathered
\* before it is yielded; the round for an error envelope yields one error, without content, and ends the
\* sequence, whatever tool call fragments have been gathered; after the end
\* of the sequence nothing is yielded, so an error of the provider is the
\* last item and no tool call follows it.
C31_OpenRouterSentinelAndError ==
  [][/\ \A ev \in OpenRouterEvents : OpenRouterOn(ev) =>
          /\ ev.type = "[DONE]" => (yielded' = yielded /\ apc' = "final")
          /\ ev.type = "error" =>
               /\ Len(YieldedBy(ev)) = 1 /\ IsErrorItem(YieldedBy(ev)[1])
               /\ YieldedBy(ev)[1].err = Err("openrouter error", <<"provider">>)
               /\ apc' = "done"
     /\ (adapter = "openrouter" /\ apc = "final") =>
          \A i \in (Len(yielded) + 1)..Len(yielded') :
            yielded'[i].content.Type = ContentTypeCallTool /\ toolUse
     /\ (adapter = "openrouter" /\ apc = "done") => yielded' = yielded]_vars

\* the sequence has ended with the error of the provider after a text, with
\* the fragments of a tool call gathered and no tool call yielded
C31_Witness ==
  /\ adapter = "openrouter" /\ apc = "done" /\ toolUse /\ wire # <<>>
  /\ Len(yielded) = 2 /\ yielded[1].content.Type = ContentTypeText
  /\ yielded[2].err = Err("openrouter error", <<"provider">>)

\* The round of OpenAI.Chat for the event ev: a chunk with text yields that
\* text at once and nothing else, no round yields a tool call, the arguments
\* of the first tool call entry of a chunk are appended to those gathered,
\* and only the end of the stream leads to the block after the loop.
OpenAIRound(ev) ==
  LET new == YieldedBy(ev)
      delta == ev.type = "chunk" /\ ev.sub # "nochoices"
  IN /\ \A i \in 1..Len(new) : new[i].content.Type # ContentTypeCallTool
     /\ (delta /\ ev.text # "") =>
          (Len(new) = 1 /\ new[1].content = TextContent(ev.text) /\ new[1].err = NoErr)
     /\ (delta /\ ev.text = "") => new = <<>>
     /\ (delta /\ ev.calls # <<>> /\ apc' = "recv") =>
          (toolUse' /\ toolArgs' = toolArgs \o ev.calls[1].args)
     /\ ev.type = "readErr" => apc' = "done"
     /\ apc' = "final" <=> ev.type = "eof"
\* OpenAI.Chat after the end of the stream: the tool call is yielded when
\* fragments were gathered, with the payload gathered, and nothing otherwise.
OpenAIAfterEnd(asObject) ==
  LET new == YieldedBy(EndOfStream)
  IN /\ apc' = "done"
     /\ IF toolUse
          THEN /\ Len(new) = 1 /\ new[1].err = NoErr
               /\ new[1].content = CallToolContent(toolContent.ToolName, toolContent.CallToolID,
                                                   EmittedInput(toolArgs, asObject))
          ELSE new = <<>>

\* C32 as stated: in the OpenAI adapter text is yielded as it arrives, the
\* argument fragments are gathered, and one tool call with the concatenation
\* of the fragments is yielded after the end of the stream and the last
\* text, and never after a receive error.
C32_OpenAIAsStated ==
  [][/\ \A ev \in OpenAIEvents : OpenAIOn(ev) => OpenAIRound(ev)
     /\ (adapter = "openai" /\ apc = "final") => OpenAIAfterEnd(FALSE)
     /\ (adapter = "openai" /\ apc = "done") => yielded' = yielded]_vars

\* C32: in the OpenAI adapter text is yielded as it arrives, the argument
\* fragments are gathered, and one tool call with the concatenation of the
\* fragments, or with the empty object when that is empty, is yielded after
\* the end of the stream and the last text, and never after a receive error.
C32_OpenAIStream ==
  [][/\ \A ev \in OpenAIEvents : OpenAIOn(ev) => OpenAIRound(ev)
     /\ (adapter = "openai" /\ apc = "final") => OpenAIAfterEnd(TRUE)
     /\ (adapter = "openai" /\ apc = "done") => yielded' = yielded]_vars

\* a text, then the tool call with the fragments of two chunks, the stream
\* having ended
C32_Witness ==
  /\ adapter = "openai" /\ apc = "done" /\ Len(yielded) = 2 /\ Len(wire) = 1
  /\ yielded[1].content = TextContent("a")
  /\ yielded[2].content = CallToolContent("lookup", "c1", ValidInput \o ValidInput)

\* C34: a tool call that the OpenAI or the OpenRouter adapter yields carries
\* the argument fragments of the first call the provider signalled and of no
\* other call (the empty object when the first call had none).
C34_FirstCallFragmentsOnly ==
  adapter \in {"openai", "openrouter"} =>
    \A i \in 1..Len(yielded) :
      yielded[i].content.Type = ContentTypeCallTool =>
        yielded[i].content.ToolInput = EmittedInput(wire[1].args, TRUE)

\* C33: with one request at a time on the conversation and no stop of the
\* process, callTool is called at most once for each tool call of the
\* conversation, by the loop and by continueChat together, whatever the
\* outcomes of the turns and the later requests: a step that calls it does
\* so for a tool call it was not called for before.
C33_GatewayOncePerCall ==
  [][(Len(log') > 0 /\ log' # log /\ Last(log').op = "callTool")
       => <<Last(log').arg.msg, Last(log').arg.idx>> \notin invoked]_vars

\* the persisted conversation ends with aiMsg as chat holds it, and aiMsg
\* ends with a tool call that has no result
PendingCallPersisted ==
  /\ Len(store) > 0
  /\ Last(store) = aiMsg
  /\ Last(aiMsg.Contents).Type = ContentTypeCallTool
  /\ ~NothingToContinue(store)

\* C35: chat reaches its call of callTool only after an UpdateMessage of an
\* aiMsg that ends with that tool call has succeeded: while the call is
\* pending the persisted message ends with the unresolved tool call, and
\* when the process stops there, what is persisted is what continueChat
\* takes up.
C35_CallPersistedBeforeInvoked ==
  [][(lpc = "callTool" /\ ~badToolInputFlag)
       => /\ PendingCallPersisted
          /\ \E i \in 1..Len(log) :
                /\ log[i] = Ev("UpdateMessage", "chat", [msg |-> aiMsg, ok |-> TRUE])
                /\ \A j \in (i + 1)..Len(log) : log[j].op # "UpdateMessage"
          /\ (lpc' = "none" /\ outcome' = "crashed")
               => (~NothingToContinue(store') /\ Last(store') = aiMsg)]_vars

\* chat is about to call callTool for a tool call of its second pass
C35_Witness ==
  /\ lpc = "callTool" /\ ~badToolInputFlag
  /\ passes = 2
  /\ PendingCallPersisted

\* the requests of the log wrote nothing to the store: no conversation
\* was created, no message added and no message updated by the handler
HandlerWroteNothing(l) ==
  \A j \in 1..Len(l) :
    (l[j].who # "chat" /\ l[j].op \in {"AddChat", "AddMessage", "UpdateMessage"})
      => ~l[j].arg.ok

\* C36: a request that HandleChats has answered with 400 or 500 has left
\* the persisted conversations and messages as they were: it created no
\* conversation and added or updated no message.
C36_ErrorAnswerLeavesStore ==
  (hpc = "idle" /\ status \in {400, 500}) => HandlerWroteNothing(log)

\* what the step published on the topic of a message: only events of the
\* topic of aiMsg
PublishedOnOwnTopic ==
  \A j \in (Len(log) + 1)..Len(log') :
    (log'[j].op = "Publish" /\ log'[j].arg.type = "messages")
      => log'[j].arg.topic = messageIDTopic(aiMsg.ID)

\* C37: a step of Main.chat changes in the store at most the message it
\* was started with, the last one of the transcript it was given: the
\* conversation keeps its messages, their order and its title, and what the
\* step publishes of the message goes to that message's topic.
C37_LoopWritesOwnMessageOnly ==
  [][Loop =>
       /\ aiMsg.ID = Last(messages).ID
       /\ aiMsg'.ID \in {aiMsg.ID, NoMessage.ID}
       /\ Len(store') = Len(store)
       /\ \A i \in 1..Len(store) :
            /\ store'[i].ID = store[i].ID
            /\ store'[i] # store[i] => store[i].ID = aiMsg.ID
       /\ chatExists' = chatExists
       /\ title' = title
       /\ PublishedOnOwnTopic]_vars

\* the loop has written its message, which is not the only one of the
\* conversation, and the conversation has a title
C37_Witness ==
  /\ lpc = "Publish"
  /\ Len(store) > 1
  /\ Last(store) = aiMsg /\ aiMsg.Contents # <<>>
  /\ title # ""

\* the positions of the log at which Main.chat published an event
ChatPublishes(l) == {j \in 1..Len(l) : l[j].op = "Publish" /\ l[j].who = "chat"}
\* the positions of the log at which a closeMessage event was published
Closes(l) == {j \in ChatPublishes(l) : l[j].arg.type = "closeMessage"}
\* the ways Main.chat returns
ExitPaths ==
  {"completed", "llmError", "storeError", "renderError", "publishError", "badContent"}

\* C38: Main.chat publishes no closeMessage event while it runs, and the
\* step by which it returns, whatever the exit path, publishes exactly one,
\* after every other event the loop has published.
C38_OneCloseMessageLast ==
  [][/\ lpc # "none" => Closes(log) = {}
     /\ (lpc # "none" /\ lpc' = "none" /\ outcome' # "crashed")
          => /\ outcome' \in ExitPaths
             /\ Cardinality(Closes(log')) = 1
             /\ \A j \in ChatPublishes(log') : \A k \in Closes(log') : j <= k
             /\ Last(log') = CloseEv]_vars

\* Main.chat has returned because the adapter yielded a content type that
\* is not allowed, after it had published a snapshot
C38_Witness ==
  /\ lpc = "none" /\ outcome = "badContent"
  /\ Cardinality(ChatPublishes(log)) > 1
  /\ Cardinality(Closes(log)) = 1

RECURSIVE AllContents(_)
\* the content items of the messages of a transcript, in order, without the
\* empty text items
AllContents(msgs) ==
  IF msgs = <<>> THEN <<>>
  ELSE SelectSeq(Head(msgs).Contents,
                 LAMBDA c : ~(c.Type = ContentTypeText /\ c.Text = ""))
         \o AllContents(Tail(msgs))
RECURSIVE AllBlocks(_)
\* the blocks of the messages of a request, in order
AllBlocks(out) ==
  IF out = <<>> THEN <<>> ELSE Head(out).content \o AllBlocks(Tail(out))
\* the block b carries the content item c
BlockOf(b, c) ==
  CASE c.Type = ContentTypeText ->
         b.type = "text" /\ b.text = c.Text
    [] c.Type = ContentTypeCallTool ->
         /\ b.type = "tool_use" /\ b.id = c.CallToolID
         /\ b.name = c.ToolName /\ b.input = c.ToolInput
    [] c.Type = ContentTypeToolResult ->
         /\ b.type = "tool_result" /\ b.tool_use_id = c.CallToolID
         /\ b.content = c.ToolResult /\ b.is_error = c.CallToolFailed
    [] OTHER -> b.type = "text" /\ b.text # ""
\* the messages of the request keep the order of the transcript: tool
\* calls close assistant messages, tool results are user messages of their
\* own right after their call, and no message is without blocks
SerializedInOrder(msgs, out) ==
  LET cs == AllContents(msgs)
      bs == AllBlocks(out)
  IN /\ Len(bs) = Len(cs)
     /\ \A k \in 1..Len(cs) : BlockOf(bs[k], cs[k])
     /\ \A i \in 1..Len(out) :
          /\ out[i].content # <<>>
          /\ \A k \in 1..Len(out[i].content) :
               LET b == out[i].content[k]
               IN /\ b.type = "text" => b.text # ""
                  /\ b.type = "tool_use"
                       => out[i].role = RoleAssistant /\ k = Len(out[i].content)
                  /\ b.type = "tool_result"
                       => /\ out[i].role = RoleUser /\ Len(out[i].content) = 1
                          /\ i > 1
                          /\ Last(out[i - 1].content).type = "tool_use"
                          /\ Last(out[i - 1].content).id = b.tool_use_id

\* C39: the request Anthropic.Chat sends for a transcript of the handlers
\* carries the content items in the order of the transcript, without the
\* empty text items: every tool call is the last block of an assistant
\* message, every tool result is a user message of its own whose
\* tool_use_id is its CallToolID, right after the message that ends with
\* its tool_use, and an assistant message without content gives no message.
C39_AnthropicSerialization ==
  (adapter = "anthropic" /\ Len(request) > 0)
    => SerializedInOrder(transcript, request[1].messages)

\* a first turn of text, tool call, tool result and text was serialized to
\* five messages; the empty assistant message at the end gave none
C39_Witness ==
  /\ adapter = "anthropic" /\ Len(request) > 0
  /\ Len(transcript) = 4 /\ Len(transcript[2].Contents) = 4
  /\ transcript[2].Contents[1].Type = ContentTypeText
  /\ transcript[2].Contents[2].Type = ContentTypeCallTool
  /\ transcript[2].Contents[3].Type = ContentTypeToolResult
  /\ transcript[2].Contents[4] = TextContent("a")
  /\ transcript[4].Contents = <<>>
  /\ Len(request[1].messages) = 5
  /\ request[1].messages[3].role = RoleUser
====
